---- MODULE Spec2Model ----
(***************************************************************************)
(* State-machine model of LeggedRobot (legged_gym/envs/base/legged_robot.py) *)
(* : the vectorised environment loop step() / post_physics_step() /        *)
(* reset_idx(), the PD torque stage, the reward engine and the curricula.  *)
(*                                                                         *)
(* Quantities are integers in fixed units: commands in 0.1 m/s, time in    *)
(* 0.1 s, positions in m, everything else in the unit of its config entry. *)
(* torch_rand_float(lo, hi) is a choice among the sample points of the     *)
(* scenario that lie in [lo, hi]; the simulator's refreshed tensors are a  *)
(* choice among the scenario's sample values.                              *)
(***************************************************************************)
EXTENDS Integers, Sequences, FiniteSets, TLC

\* ------------------------------------------------------------------ bounds
NumEnvs == 2
NumDof == 1
MaxSteps == 2
TrajectoryLen == 10
\* outside callers stop resetting once a randomized gain has grown past this value
MaxGain == 4

Envs == 0 .. (NumEnvs - 1)
Dofs == 0 .. (NumDof - 1)
Feet == {0}

\* ----------------------------------------------------------------- helpers
Sign(x) == IF x > 0 THEN 1 ELSE IF x < 0 THEN -1 ELSE 0

Min2(a, b) == IF a < b THEN a ELSE b

Max2(a, b) == IF a > b THEN a ELSE b

CeilDiv(a, b) == (a + b - 1) \div b

\* torch.clip(x, lo, hi): max first, then min (lo > hi yields hi)
TorchClip(x, lo, hi) == Min2(Max2(x, lo), hi)

RECURSIVE SumOver(_, _)
SumOver(f, S) ==
    IF S = {} THEN 0
    ELSE LET x == CHOOSE y \in S : TRUE IN f[x] + SumOver(f, S \ {x})

Norm2(v) == v[1] * v[1] + v[2] * v[2]

ZeroDofs == [j \in Dofs |-> 0]

ZeroFeet == [f \in Feet |-> 0]

\* the points of grid lying in [lo, hi]
Uniform(lo, hi, grid) == {v \in grid : lo <= v /\ v <= hi}

\* ------------------------------------------------------------------- state
VARIABLES
    cfg,                  \* self.cfg (never written after construction)
    scn,                  \* sample values of the policy, the simulator and the random source
    pc,                   \* position: "idle", inside step() "torque", "sim", "post", "reset",
                          \* "obs", inside reset() "reset_call", and "crashed"
    substep,              \* index of the decimation loop
    common_step_counter,
    episode_length_buf, reset_buf, time_out_buf, rew_buf, episode_sums,
    commands, command_ranges,
    terrain_levels, terrain_types, env_origins, root_xy,
    contact_forces, feet_forces, last_contacts, feet_air_time,
    actions, last_actions, dof_pos, dof_vel, last_dof_pos, last_dof_vel,
    torques, last_torques,
    motor_strength, p_gains_all, d_gains_all, torque_multi, motor_offsets,
    joint_coulomb, joint_viscous, delay,
    base_lin_vel,         \* body-frame linear velocity (x, y), derived after physics
    joint_friction_factor, joint_damping_factor, joint_armature_factor,
    obs_buf, privileged_obs_buf,
    step_actions,         \* the actions argument of the running or last step()
    extras,               \* the info dictionary
    env_ids,              \* post_physics_step's local: the environments flagged this step
    terminal_amp_states,  \* post_physics_step's local: the AMP observations of env_ids
    init_done,            \* set once __init__ has built the buffers
    ret                   \* the call that has just returned ("none" once the next one runs)

vars ==
    << cfg, scn, pc, substep, common_step_counter,
       episode_length_buf, reset_buf, time_out_buf, rew_buf, episode_sums,
       commands, command_ranges,
       terrain_levels, terrain_types, env_origins, root_xy,
       contact_forces, feet_forces, last_contacts, feet_air_time,
       actions, last_actions, dof_pos, dof_vel, last_dof_pos, last_dof_vel,
       torques, last_torques,
       motor_strength, p_gains_all, d_gains_all, torque_multi, motor_offsets,
       joint_coulomb, joint_viscous, delay, base_lin_vel,
       joint_friction_factor, joint_damping_factor, joint_armature_factor,
       obs_buf, privileged_obs_buf, step_actions, extras, env_ids,
       terminal_amp_states, init_done, ret >>

\* the mutable buffers of self, as one record, for the methods to thread through
Self ==
    [ common_step_counter |-> common_step_counter,
      episode_length_buf |-> episode_length_buf,
      reset_buf |-> reset_buf,
      time_out_buf |-> time_out_buf,
      rew_buf |-> rew_buf,
      episode_sums |-> episode_sums,
      commands |-> commands,
      command_ranges |-> command_ranges,
      terrain_levels |-> terrain_levels,
      terrain_types |-> terrain_types,
      env_origins |-> env_origins,
      root_xy |-> root_xy,
      contact_forces |-> contact_forces,
      feet_forces |-> feet_forces,
      last_contacts |-> last_contacts,
      feet_air_time |-> feet_air_time,
      actions |-> actions,
      last_actions |-> last_actions,
      dof_pos |-> dof_pos,
      dof_vel |-> dof_vel,
      last_dof_pos |-> last_dof_pos,
      last_dof_vel |-> last_dof_vel,
      torques |-> torques,
      last_torques |-> last_torques,
      motor_strength |-> motor_strength,
      p_gains_all |-> p_gains_all,
      d_gains_all |-> d_gains_all,
      torque_multi |-> torque_multi,
      motor_offsets |-> motor_offsets,
      joint_coulomb |-> joint_coulomb,
      joint_viscous |-> joint_viscous,
      delay |-> delay,
      base_lin_vel |-> base_lin_vel,
      joint_friction_factor |-> joint_friction_factor,
      joint_damping_factor |-> joint_damping_factor,
      joint_armature_factor |-> joint_armature_factor,
      obs_buf |-> obs_buf,
      privileged_obs_buf |-> privileged_obs_buf,
      extras |-> extras,
      init_done |-> init_done ]

Commit(s) ==
    /\ common_step_counter' = s.common_step_counter
    /\ init_done' = s.init_done
    /\ episode_length_buf' = s.episode_length_buf
    /\ reset_buf' = s.reset_buf
    /\ time_out_buf' = s.time_out_buf
    /\ rew_buf' = s.rew_buf
    /\ episode_sums' = s.episode_sums
    /\ commands' = s.commands
    /\ command_ranges' = s.command_ranges
    /\ terrain_levels' = s.terrain_levels
    /\ terrain_types' = s.terrain_types
    /\ env_origins' = s.env_origins
    /\ root_xy' = s.root_xy
    /\ contact_forces' = s.contact_forces
    /\ feet_forces' = s.feet_forces
    /\ last_contacts' = s.last_contacts
    /\ feet_air_time' = s.feet_air_time
    /\ actions' = s.actions
    /\ last_actions' = s.last_actions
    /\ dof_pos' = s.dof_pos
    /\ dof_vel' = s.dof_vel
    /\ last_dof_pos' = s.last_dof_pos
    /\ last_dof_vel' = s.last_dof_vel
    /\ torques' = s.torques
    /\ last_torques' = s.last_torques
    /\ motor_strength' = s.motor_strength
    /\ p_gains_all' = s.p_gains_all
    /\ d_gains_all' = s.d_gains_all
    /\ torque_multi' = s.torque_multi
    /\ motor_offsets' = s.motor_offsets
    /\ joint_coulomb' = s.joint_coulomb
    /\ joint_viscous' = s.joint_viscous
    /\ delay' = s.delay
    /\ base_lin_vel' = s.base_lin_vel
    /\ joint_friction_factor' = s.joint_friction_factor
    /\ joint_damping_factor' = s.joint_damping_factor
    /\ joint_armature_factor' = s.joint_armature_factor
    /\ obs_buf' = s.obs_buf
    /\ privileged_obs_buf' = s.privileged_obs_buf
    /\ extras' = s.extras

\* ------------------------------------------------- configuration, derived
\* _parse_cfg: the policy period
dt == cfg.decimation * cfg.sim_dt

\* __init__: the length of the selected reference trajectory, in time and in steps
max_episode_length_s == TrajectoryLen

max_episode_length == CeilDiv(max_episode_length_s, dt)

\* _get_env_origins: origins come from the terrain for heightfield and trimesh
custom_origins == cfg.mesh_type \in {"heightfield", "trimesh"}

\* _parse_cfg switches the terrain curriculum off on any other mesh type
terrain_curriculum == cfg.terrain_curriculum /\ custom_origins

max_terrain_level == cfg.num_rows

\* Terrain.env_origins[level, type]: the centre of the terrain cell
terrain_origins(level, type) ==
    << ((2 * level + 1) * cfg.env_length) \div 2, ((2 * type + 1) * cfg.env_width) \div 2 >>

\* _init_buffers: gains, default angles; _process_dof_props: effort limits
p_gains == [j \in Dofs |-> cfg.stiffness]

d_gains == [j \in Dofs |-> cfg.damping]

default_dof_pos == [j \in Dofs |-> cfg.default_joint_angle]

torque_limits == [j \in Dofs |-> cfg.effort]

\* _prepare_reward_function: zero scales are dropped, the others multiplied by dt
reward_scales ==
    [k \in {n \in DOMAIN cfg.scales : cfg.scales[n] # 0} |-> cfg.scales[k] * dt]

\* _prepare_reward_function: the terms of the per-step loop ("termination" is skipped)
reward_names == {n \in DOMAIN reward_scales : n # "termination"}

\* ------------------------------------------------------------ torque stage
actions_scaled(s, i, j) == s.actions[i][j] * cfg.action_scale

\* a position controller that adds the motor offset to the torque, outside the gain
pd_torque_P_offset_as_torque(s, i, j) ==
    ( s.motor_strength[1][i][j] * s.p_gains_all[i][j]
        * (actions_scaled(s, i, j) + default_dof_pos[j] - s.dof_pos[i][j])
      + s.motor_offsets[i][j]
      - s.motor_strength[2][i][j] * s.d_gains_all[i][j] * s.dof_vel[i][j]
      - s.joint_coulomb[i][j] * s.dof_vel[i][j]
      - s.joint_viscous[i][j] ) * s.torque_multi[i][j]

\* _compute_torques, control_type "P": the torque before the clip
pd_torque_P(s, i, j) ==
    IF cfg.randomize_motor
    THEN ( s.motor_strength[1][i][j] * s.p_gains_all[i][j]
             * (actions_scaled(s, i, j) + default_dof_pos[j] - s.dof_pos[i][j]
                  + s.motor_offsets[i][j])
           - s.motor_strength[2][i][j] * s.d_gains_all[i][j] * s.dof_vel[i][j]
           - s.joint_coulomb[i][j] * s.dof_vel[i][j]
           - s.joint_viscous[i][j] ) * s.torque_multi[i][j]
    ELSE s.p_gains_all[i][j]
             * (actions_scaled(s, i, j) + default_dof_pos[j] - s.dof_pos[i][j])
           - s.d_gains_all[i][j] * s.dof_vel[i][j]

\* _compute_torques, control_type "V" (the quotient is exact for sim_dt = 1)
pd_torque_V(s, i, j) ==
    p_gains[j] * (actions_scaled(s, i, j) - s.dof_vel[i][j])
      - (d_gains[j] * (s.dof_vel[i][j] - s.last_dof_vel[i][j])) \div cfg.sim_dt

\* _compute_torques: the torque before the clip, by control type
raw_torque(s, i, j) ==
    IF cfg.control_type = "P" THEN pd_torque_P(s, i, j)
    ELSE IF cfg.control_type = "V" THEN pd_torque_V(s, i, j)
    ELSE actions_scaled(s, i, j)

\* a clip at the upper limit only
clip_torque_above(t, j) == Min2(t, torque_limits[j])

\* _compute_torques: torch.clip(torques, -torque_limits, torque_limits)
clip_torque(t, j) == TorchClip(t, -torque_limits[j], torque_limits[j])

compute_torques(s) ==
    [i \in Envs |-> [j \in Dofs |-> clip_torque(raw_torque(s, i, j), j)]]

\* a controller that accepts every control type
any_control_type == TRUE

known_control_type == cfg.control_type \in {"P", "V", "T"}

\* ---------------------------------------------------------------- commands
\* 0.2 m/s, in 0.1 m/s
CommandDeadband == 2

\* a resampling without the deadband
keep_small_commands(c) == c

\* _resample_commands: "set small commands to zero", commands[:, :2] *= (norm > 0.2)
small_to_zero(c) ==
    IF Norm2(<< c[1], c[2] >>) > CommandDeadband * CommandDeadband
    THEN c
    ELSE << 0, 0, c[3], c[4] >>

\* the draws of one _resample_commands row: lin_vel_x, lin_vel_y, heading or yaw rate
CmdDraws(s) ==
    Uniform(s.command_ranges.lin_vel_x[1], s.command_ranges.lin_vel_x[2], scn.cmd_x)
      \X Uniform(s.command_ranges.lin_vel_y[1], s.command_ranges.lin_vel_y[2], scn.cmd_y)
      \X ( IF cfg.heading_command
           THEN Uniform(s.command_ranges.heading[1], s.command_ranges.heading[2], scn.cmd_yaw)
           ELSE Uniform(s.command_ranges.ang_vel_yaw[1], s.command_ranges.ang_vel_yaw[2],
                        scn.cmd_yaw) )

\* _resample_commands(env_ids), draw[i] the values torch_rand_float returned for row i
resample_commands(s, ids, draw) ==
    [s EXCEPT !.commands =
        [i \in Envs |->
            IF i \in ids
            THEN small_to_zero(
                     IF cfg.heading_command
                     THEN << draw[i][1], draw[i][2], s.commands[i][3], draw[i][3] >>
                     ELSE << draw[i][1], draw[i][2], draw[i][3], s.commands[i][4] >>)
            ELSE s.commands[i]]]

\* ------------------------------------------------------------- termination
\* contact-force norm above which a termination body ends the episode (1 N)
ContactThreshold == 1

\* a termination check that only looks at the episode length
check_termination_timeouts_only(s) ==
    LET timeout == [i \in Envs |->
                       IF s.episode_length_buf[i] > max_episode_length THEN 1 ELSE 0]
    IN  [s EXCEPT !.time_out_buf = timeout, !.reset_buf = timeout]

\* a termination check that only looks at the contact forces
check_termination_contact_only(s) ==
    LET contact == [i \in Envs |->
                       IF cfg.check_contact /\ s.contact_forces[i] > ContactThreshold
                       THEN 1 ELSE 0]
    IN  [s EXCEPT !.time_out_buf = [i \in Envs |-> 0], !.reset_buf = contact]

\* check_termination timing an episode out one step later
check_termination_one_step_late(s) ==
    LET contact == [i \in Envs |->
                       IF cfg.check_contact /\ s.contact_forces[i] > ContactThreshold
                       THEN 1 ELSE 0]
        timeout == [i \in Envs |->
                       IF s.episode_length_buf[i] > max_episode_length + 1 THEN 1 ELSE 0]
    IN  [s EXCEPT !.time_out_buf = timeout,
                  !.reset_buf = [i \in Envs |-> Max2(contact[i], timeout[i])]]

\* check_termination
check_termination(s) ==
    LET contact == [i \in Envs |->
                       IF cfg.check_contact /\ s.contact_forces[i] > ContactThreshold
                       THEN 1 ELSE 0]
        timeout == [i \in Envs |->
                       IF s.episode_length_buf[i] > max_episode_length THEN 1 ELSE 0]
    IN  [s EXCEPT !.time_out_buf = timeout,
                  !.reset_buf = [i \in Envs |-> Max2(contact[i], timeout[i])]]

\* ------------------------------------------------------------------ reward
\* a termination term that also counts time-outs
reward_termination_with_timeouts(s, i) == s.reset_buf[i]

\* _reward_termination: reset_buf * ~time_out_buf
reward_termination(s, i) == s.reset_buf[i] * (1 - s.time_out_buf[i])

\* exp(-e / tracking_sigma) in 1/100, e in (0.1 m/s)^2 and sigma = 0.25 (m/s)^2:
\* a step function, the value at the largest error of each bucket, rounded down
ExpKernel(e) ==
    IF e = 0 THEN 100
    ELSE IF e <= 1 THEN 96
    ELSE IF e <= 4 THEN 85
    ELSE IF e <= 9 THEN 69
    ELSE IF e <= 25 THEN 36
    ELSE IF e <= 100 THEN 1
    ELSE 0

feet_contact_filt(s, i, f) == s.feet_forces[i][f] > 1 \/ s.last_contacts[i][f]

\* the value of one reward function for one environment
reward_function(name, s, i) ==
    CASE name = "action_rate" ->
           SumOver([j \in Dofs |-> (s.last_actions[i][j] - s.actions[i][j])
                                     * (s.last_actions[i][j] - s.actions[i][j])], Dofs)
      [] name = "dof_vel" ->
           SumOver([j \in Dofs |-> s.dof_vel[i][j] * s.dof_vel[i][j]], Dofs)
      [] name = "torques" ->
           SumOver([j \in Dofs |-> s.torques[i][j] * s.torques[i][j]], Dofs)
      [] name = "tracking_lin_vel" ->
           ExpKernel(Norm2(<< s.commands[i][1] - s.base_lin_vel[i][1],
                              s.commands[i][2] - s.base_lin_vel[i][2] >>))
      [] name = "feet_air_time" ->
           ( IF Norm2(<< s.commands[i][1], s.commands[i][2] >>) > 1 THEN 1 ELSE 0 )
             * SumOver([f \in Feet |->
                          IF s.feet_air_time[i][f] > 0 /\ feet_contact_filt(s, i, f)
                          THEN s.feet_air_time[i][f] + dt - 5
                          ELSE 0], Feet)
      [] name = "termination" -> reward_termination(s, i)

\* _reward_feet_air_time's writes to its own buffers
feet_air_time_update(s) ==
    [s EXCEPT
       !.feet_air_time = [i \in Envs |-> [f \in Feet |->
                             IF feet_contact_filt(s, i, f) THEN 0
                             ELSE s.feet_air_time[i][f] + dt]],
       !.last_contacts = [i \in Envs |-> [f \in Feet |-> s.feet_forces[i][f] > 1]]]

\* compute_reward: one term of the loop, scaled
scaled_term(name, s, i) == reward_function(name, s, i) * reward_scales[name]

\* compute_reward: the sum of the loop, before the clamp
loop_total(s, i) == SumOver([n \in reward_names |-> scaled_term(n, s, i)], reward_names)

\* no clamp at all
unclamped_reward(r) == r

\* compute_reward: torch.clip(rew_buf, min=0.) under only_positive_rewards
clamp_reward(r) == IF cfg.only_positive_rewards THEN Max2(r, 0) ELSE r

\* compute_reward: the termination contribution, added after the clamp
termination_term(s, i) ==
    IF "termination" \in DOMAIN reward_scales
    THEN reward_termination(s, i) * reward_scales["termination"]
    ELSE 0

\* a reward that clamps after the termination term is added
total_reward_clamped_last(s, i) == clamp_reward(loop_total(s, i) + termination_term(s, i))

\* compute_reward: rew_buf of one environment
total_reward(s, i) == clamp_reward(loop_total(s, i)) + termination_term(s, i)

\* compute_reward accumulating the clamped value of every term into episode_sums
compute_reward_summing_clamped(s) ==
    LET s1 == IF "feet_air_time" \in reward_names THEN feet_air_time_update(s) ELSE s
    IN  [s1 EXCEPT
           !.rew_buf = [i \in Envs |-> total_reward(s, i)],
           !.episode_sums =
               [k \in DOMAIN reward_scales |-> [i \in Envs |->
                   s.episode_sums[k][i]
                     + ( IF k = "termination" THEN termination_term(s, i)
                         ELSE clamp_reward(scaled_term(k, s, i)) )]]]

compute_reward(s) ==
    LET s1 == IF "feet_air_time" \in reward_names THEN feet_air_time_update(s) ELSE s
    IN  [s1 EXCEPT
           !.rew_buf = [i \in Envs |-> total_reward(s, i)],
           !.episode_sums =
               [k \in DOMAIN reward_scales |-> [i \in Envs |->
                   s.episode_sums[k][i]
                     + ( IF k = "termination" THEN termination_term(s, i)
                         ELSE scaled_term(k, s, i) )]]]

\* ---------------------------------------------------------------- curricula
\* _update_terrain_curriculum: distance > env_length / 2, on the squares
move_up(s, i) ==
    4 * Norm2(<< s.root_xy[i][1] - s.env_origins[i][1],
                 s.root_xy[i][2] - s.env_origins[i][2] >>)
      > cfg.env_length * cfg.env_length

\* a move-down test that forgets the robots already moved up
move_down_unguarded(s, i) ==
    40000 * Norm2(<< s.root_xy[i][1] - s.env_origins[i][1],
                     s.root_xy[i][2] - s.env_origins[i][2] >>)
      < Norm2(<< s.commands[i][1], s.commands[i][2] >>)
          * max_episode_length_s * max_episode_length_s

\* _update_terrain_curriculum: distance < norm(command) * max_episode_length_s * 0.5,
\* on the squares (commands in 0.1 m/s and time in 0.1 s), and not moved up
move_down(s, i) ==
    /\ 40000 * Norm2(<< s.root_xy[i][1] - s.env_origins[i][1],
                        s.root_xy[i][2] - s.env_origins[i][2] >>)
         < Norm2(<< s.commands[i][1], s.commands[i][2] >>)
             * max_episode_length_s * max_episode_length_s
    /\ ~move_up(s, i)

\* _update_terrain_curriculum: terrain_levels[env_ids] += 1 * move_up - 1 * move_down
stepped_level(s, i) ==
    s.terrain_levels[i] + (IF move_up(s, i) THEN 1 ELSE 0) - (IF move_down(s, i) THEN 1 ELSE 0)

\* a wrap without the clip at zero
wrapped_level_unclipped(level, random_level) ==
    IF level >= max_terrain_level THEN random_level ELSE level

\* _update_terrain_curriculum: torch.where(level >= max, randint, clip(level, 0))
wrapped_level(level, random_level) ==
    IF level >= max_terrain_level THEN random_level ELSE Max2(level, 0)

\* a terrain curriculum that moves the levels and leaves the origins where they were
update_terrain_curriculum_levels_only(s, ids) ==
    LET over == {i \in ids : stepped_level(s, i) >= max_terrain_level}
    IN  { [s EXCEPT !.terrain_levels = [i \in Envs |->
                        IF i \in ids
                        THEN wrapped_level(stepped_level(s, i), IF i \in over THEN r[i] ELSE 0)
                        ELSE s.terrain_levels[i]]]
          : r \in [over -> 0 .. (max_terrain_level - 1)] }

\* _update_terrain_curriculum(env_ids): nothing before init_done; after it, one result
\* per value of torch.randint_like
update_terrain_curriculum(s, ids) ==
    LET over == {i \in ids : stepped_level(s, i) >= max_terrain_level}
    IN  IF ~s.init_done THEN {s} ELSE
        { LET lv == [i \in Envs |->
                        IF i \in ids
                        THEN wrapped_level(stepped_level(s, i), IF i \in over THEN r[i] ELSE 0)
                        ELSE s.terrain_levels[i]]
          IN  [s EXCEPT !.terrain_levels = lv,
                        !.env_origins = [i \in Envs |->
                            IF i \in ids THEN terrain_origins(lv[i], s.terrain_types[i])
                            ELSE s.env_origins[i]]]
          : r \in [over -> 0 .. (max_terrain_level - 1)] }

\* update_command_curriculum: mean(episode_sums) / max_episode_length > 0.8 * scale
\* (a configuration with the command curriculum has the tracking_lin_vel term); the
\* sums are in the unit of ExpKernel, where ExpKernel(0) stands for 1
tracking_above_threshold(s, ids) ==
    10 * SumOver([i \in ids |-> s.episode_sums["tracking_lin_vel"][i]], ids)
      > 8 * ExpKernel(0) * reward_scales["tracking_lin_vel"]
          * Cardinality(ids) * max_episode_length

\* a command curriculum that widens without the cap
update_command_curriculum_uncapped(s, ids) ==
    IF tracking_above_threshold(s, ids)
    THEN [s EXCEPT !.command_ranges.lin_vel_x =
             << s.command_ranges.lin_vel_x[1] - 5, s.command_ranges.lin_vel_x[2] + 5 >>]
    ELSE s

\* update_command_curriculum(env_ids): the range widens by 0.5 m/s, up to max_curriculum
update_command_curriculum(s, ids) ==
    IF tracking_above_threshold(s, ids)
    THEN [s EXCEPT !.command_ranges.lin_vel_x =
             << TorchClip(s.command_ranges.lin_vel_x[1] - 5, -cfg.max_curriculum, 0),
                TorchClip(s.command_ranges.lin_vel_x[2] + 5, 0, cfg.max_curriculum) >>]
    ELSE s

\* ----------------------------------------------------- domain randomization
\* the draws of randomize_motor_props for one environment
MotorDraws ==
    [ tm : [Dofs -> IF cfg.randomize_motor /\ cfg.randomize_torque
                    THEN cfg.torque_multiplier_range ELSE {0}],
      off : [Dofs -> IF cfg.randomize_motor /\ cfg.randomize_motor_offset
                     THEN cfg.motor_offset_range ELSE {0}],
      pf : [Dofs -> IF cfg.randomize_motor /\ cfg.randomize_gains
                    THEN cfg.stiffness_multiplier_range ELSE {0}],
      df : [Dofs -> IF cfg.randomize_motor /\ cfg.randomize_gains
                    THEN cfg.damping_multiplier_range ELSE {0}],
      co : [Dofs -> IF cfg.randomize_motor /\ cfg.randomize_coulomb_friction
                    THEN cfg.joint_coulomb_range ELSE {0}],
      vi : [Dofs -> IF cfg.randomize_motor /\ cfg.randomize_coulomb_friction
                    THEN cfg.joint_viscous_range ELSE {0}] ]

\* rows ids of buf replaced by the draw
SetRows(buf, ids, rows) == [i \in Envs |-> IF i \in ids THEN rows[i] ELSE buf[i]]

\* randomize_motor_props(env_ids), m[i] the draws for row i
randomize_motor_props(s, ids, m) ==
    IF ~cfg.randomize_motor THEN s
    ELSE
      [s EXCEPT
         !.torque_multi =
             IF cfg.randomize_torque THEN SetRows(@, ids, [i \in ids |-> m[i].tm]) ELSE @,
         !.motor_offsets =
             IF cfg.randomize_motor_offset THEN SetRows(@, ids, [i \in ids |-> m[i].off])
             ELSE @,
         !.p_gains_all =
             IF cfg.randomize_gains
             THEN SetRows(@, ids, [i \in ids |->
                      [j \in Dofs |-> m[i].pf[j] * s.d_gains_all[i][j]]])
             ELSE @,
         !.d_gains_all =
             IF cfg.randomize_gains
             THEN SetRows(@, ids, [i \in ids |->
                      [j \in Dofs |-> m[i].df[j] * s.d_gains_all[i][j]]])
             ELSE @,
         !.joint_coulomb =
             IF cfg.randomize_coulomb_friction THEN SetRows(@, ids, [i \in ids |-> m[i].co])
             ELSE @,
         !.joint_viscous =
             IF cfg.randomize_coulomb_friction THEN SetRows(@, ids, [i \in ids |-> m[i].vi])
             ELSE @]

\* the columns of a joint factor buffer: one per joint, or a single one
factor_cols(each_joint) == IF each_joint THEN Dofs ELSE {0}

\* the draws of randomize_dof_props for one environment
DofDraws ==
    [ friction : [factor_cols(cfg.randomize_joint_friction_each_joint) ->
                     IF cfg.randomize_joint_friction THEN cfg.joint_friction_factor ELSE {1}],
      damping : [factor_cols(cfg.randomize_joint_damping_each_joint) ->
                    IF cfg.randomize_joint_damping THEN cfg.joint_damping_factor ELSE {1}],
      armature : [factor_cols(cfg.randomize_joint_armature_each_joint) ->
                     IF cfg.randomize_joint_armature THEN cfg.joint_armature_factor ELSE {1}] ]

\* a joint-factor randomization that writes the draw of one environment to every row
randomize_dof_props_every_row(s, ids, m) ==
    IF ids = {} THEN s
    ELSE LET k == CHOOSE i \in ids : TRUE
         IN  [s EXCEPT
                !.joint_friction_factor =
                    IF cfg.randomize_joint_friction
                    THEN [i \in Envs |-> m[k].friction] ELSE @,
                !.joint_damping_factor =
                    IF cfg.randomize_joint_damping
                    THEN [i \in Envs |-> m[k].damping] ELSE @,
                !.joint_armature_factor =
                    IF cfg.randomize_joint_armature
                    THEN [i \in Envs |-> m[k].armature] ELSE @]

\* randomize_dof_props(env_ids), m[i] the draws for row i
randomize_dof_props(s, ids, m) ==
    [s EXCEPT
       !.joint_friction_factor =
           IF cfg.randomize_joint_friction
           THEN SetRows(@, ids, [i \in ids |-> m[i].friction]) ELSE @,
       !.joint_damping_factor =
           IF cfg.randomize_joint_damping
           THEN SetRows(@, ids, [i \in ids |-> m[i].damping]) ELSE @,
       !.joint_armature_factor =
           IF cfg.randomize_joint_armature
           THEN SetRows(@, ids, [i \in ids |-> m[i].armature]) ELSE @]

\* ------------------------------------------------------------------- reset
\* the state one environment is re-placed in: the offset of the root from the
\* environment origin, the joint positions and the joint velocities.
\* _reset_dofs / _reset_root_states without RSI, _reset_dofs_amp /
\* _reset_root_states_amp from a reference frame with RSI
PlaceDraws ==
    [ root_off : IF cfg.RSI THEN scn.frame_root_xy
                 ELSE IF custom_origins THEN scn.reset_xy_noise
                 ELSE {<< 0, 0 >>},
      dof_pos : [Dofs -> IF cfg.RSI
                         THEN IF cfg.RSI_rand
                              THEN {q + n : q \in scn.frame_dof_pos, n \in scn.rsi_noise}
                              ELSE scn.frame_dof_pos
                         ELSE {(cfg.default_joint_angle * h) \div 2 : h \in scn.dof_scale_halves}],
      dof_vel : [Dofs -> IF cfg.RSI THEN scn.frame_dof_vel ELSE {0}] ]

\* place_robots that also re-derives the body-frame velocity of the rows it places
place_robots_refreshing_derived(s, ids, d) ==
    [s EXCEPT
       !.root_xy = SetRows(@, ids, [i \in ids |->
                       << s.env_origins[i][1] + d[i].root_off[1],
                          s.env_origins[i][2] + d[i].root_off[2] >>]),
       !.dof_pos = SetRows(@, ids, [i \in ids |-> d[i].dof_pos]),
       !.dof_vel = SetRows(@, ids, [i \in ids |-> d[i].dof_vel]),
       !.base_lin_vel = SetRows(@, ids, [i \in ids |-> << 0, 0 >>])]

\* reset_idx, "reset robot states": rows ids of the root and joint state
place_robots(s, ids, d) ==
    [s EXCEPT
       !.root_xy = SetRows(@, ids, [i \in ids |->
                       << s.env_origins[i][1] + d[i].root_off[1],
                          s.env_origins[i][2] + d[i].root_off[2] >>]),
       !.dof_pos = SetRows(@, ids, [i \in ids |-> d[i].dof_pos]),
       !.dof_vel = SetRows(@, ids, [i \in ids |-> d[i].dof_vel])]

\* a buffer reset that leaves last_actions and feet_air_time alone
reset_buffers_partial(s, ids) ==
    [s EXCEPT
       !.last_dof_vel = SetRows(@, ids, [i \in ids |-> ZeroDofs]),
       !.last_dof_pos = SetRows(@, ids, [i \in ids |-> ZeroDofs]),
       !.last_torques = SetRows(@, ids, [i \in ids |-> ZeroDofs]),
       !.episode_length_buf = SetRows(@, ids, [i \in ids |-> 0]),
       !.reset_buf = SetRows(@, ids, [i \in ids |-> 1])]

\* a reset that leaves the episode length of the reset rows running
reset_buffers_keep_length(s, ids) ==
    [s EXCEPT
       !.last_actions = SetRows(@, ids, [i \in ids |-> ZeroDofs]),
       !.last_dof_vel = SetRows(@, ids, [i \in ids |-> ZeroDofs]),
       !.last_dof_pos = SetRows(@, ids, [i \in ids |-> ZeroDofs]),
       !.last_torques = SetRows(@, ids, [i \in ids |-> ZeroDofs]),
       !.feet_air_time = SetRows(@, ids, [i \in ids |-> ZeroFeet]),
       !.reset_buf = SetRows(@, ids, [i \in ids |-> 1])]

\* a buffer reset that also clears the stored actions of the reset rows
reset_buffers_with_actions(s, ids) ==
    [s EXCEPT
       !.actions = SetRows(@, ids, [i \in ids |-> ZeroDofs]),
       !.last_actions = SetRows(@, ids, [i \in ids |-> ZeroDofs]),
       !.last_dof_vel = SetRows(@, ids, [i \in ids |-> ZeroDofs]),
       !.last_dof_pos = SetRows(@, ids, [i \in ids |-> ZeroDofs]),
       !.last_torques = SetRows(@, ids, [i \in ids |-> ZeroDofs]),
       !.feet_air_time = SetRows(@, ids, [i \in ids |-> ZeroFeet]),
       !.episode_length_buf = SetRows(@, ids, [i \in ids |-> 0]),
       !.reset_buf = SetRows(@, ids, [i \in ids |-> 1])]

\* reset_idx, "reset buffers"
reset_buffers(s, ids) ==
    [s EXCEPT
       !.last_actions = SetRows(@, ids, [i \in ids |-> ZeroDofs]),
       !.last_dof_vel = SetRows(@, ids, [i \in ids |-> ZeroDofs]),
       !.last_dof_pos = SetRows(@, ids, [i \in ids |-> ZeroDofs]),
       !.last_torques = SetRows(@, ids, [i \in ids |-> ZeroDofs]),
       !.feet_air_time = SetRows(@, ids, [i \in ids |-> ZeroFeet]),
       !.episode_length_buf = SetRows(@, ids, [i \in ids |-> 0]),
       !.reset_buf = SetRows(@, ids, [i \in ids |-> 1])]

\* a fill of the extras that reports the sums and leaves them running
fill_extras_without_clear(s, ids) ==
    [s EXCEPT
       !.extras =
           [ episode |->
               [ rew |-> [k \in DOMAIN reward_scales |->
                            << SumOver([i \in ids |-> s.episode_sums[k][i]], ids),
                               Cardinality(ids) * max_episode_length_s >>],
                 terrain_level |->
                     IF terrain_curriculum
                     THEN << SumOver(s.terrain_levels, Envs), NumEnvs >> ELSE << >>,
                 max_command_x |->
                     IF cfg.commands_curriculum
                     THEN << s.command_ranges.lin_vel_x[2] >> ELSE << >> ],
             time_outs |-> IF cfg.send_timeouts THEN s.time_out_buf ELSE s.extras.time_outs ]]

\* reset_idx, "fill extras": a mean is the pair << sum, count * divisor >>
fill_extras(s, ids) ==
    [s EXCEPT
       !.extras =
           [ episode |->
               [ rew |-> [k \in DOMAIN reward_scales |->
                            << SumOver([i \in ids |-> s.episode_sums[k][i]], ids),
                               Cardinality(ids) * max_episode_length_s >>],
                 terrain_level |->
                     IF terrain_curriculum
                     THEN << SumOver(s.terrain_levels, Envs), NumEnvs >> ELSE << >>,
                 max_command_x |->
                     IF cfg.commands_curriculum
                     THEN << s.command_ranges.lin_vel_x[2] >> ELSE << >> ],
             time_outs |-> IF cfg.send_timeouts THEN s.time_out_buf ELSE s.extras.time_outs ],
       !.episode_sums = [k \in DOMAIN reward_scales |-> SetRows(@[k], ids, [i \in ids |-> 0])]]

\* reset_idx, "update curriculum": every result the random level can give
reset_curricula(s, ids) ==
    LET ts == IF terrain_curriculum THEN update_terrain_curriculum(s, ids) ELSE {s}
    IN  { IF cfg.commands_curriculum /\ s1.common_step_counter % max_episode_length = 0
          THEN update_command_curriculum(s1, ids)
          ELSE s1 : s1 \in ts }

\* reset_idx after the curricula, for one draw of the reset state, the commands and
\* the motor parameters
reset_rows(s, ids, place, cmd, motor, dof) ==
    fill_extras(
        reset_buffers(
            randomize_dof_props(
                randomize_motor_props(
                    resample_commands(place_robots(s, ids, place), ids, cmd),
                    ids, motor),
                ids, dof),
            ids),
        ids)

\* a reset_idx without the early return on an empty index set
reset_idx_unguarded(s, ids) ==
    UNION { { reset_rows(s1, ids, place, cmd, motor, dof) :
                place \in [ids -> PlaceDraws],
                cmd \in [ids -> CmdDraws(s1)],
                motor \in [ids -> MotorDraws],
                dof \in [ids -> DofDraws] }
            : s1 \in reset_curricula(s, ids) }

\* a reset_idx that updates the curricula after the reset of the rows
reset_idx_curricula_last(s, ids) ==
    IF ids = {} THEN {s}
    ELSE UNION { reset_curricula(s1, ids) :
                 s1 \in { reset_rows(s, ids, place, cmd, motor, dof) :
                            place \in [ids -> PlaceDraws],
                            cmd \in [ids -> CmdDraws(s)],
                            motor \in [ids -> MotorDraws],
                            dof \in [ids -> DofDraws] } }

\* reset_idx(env_ids): the set of states it can return
reset_idx(s, ids) ==
    IF ids = {} THEN {s}
    ELSE UNION { { reset_rows(s1, ids, place, cmd, motor, dof) :
                     place \in [ids -> PlaceDraws],
                     cmd \in [ids -> CmdDraws(s1)],
                     motor \in [ids -> MotorDraws],
                     dof \in [ids -> DofDraws] }
                 : s1 \in reset_curricula(s, ids) }

\* a filter that passes the new action through whatever the delay
filter_action_without_delay(a, prev, d) == a

\* -------------------------------------------------------------------- step
\* step(), the one-pole delay filter and the clip; delay is in quarters
filter_action(a, prev, d) == ((4 - d) * a + d * prev) \div 4

clip_action(a) ==
    TorchClip(a, -(cfg.clip_actions \div cfg.action_scale), cfg.clip_actions \div cfg.action_scale)

\* step(actions) up to the decimation loop
begin_step(s, a) ==
    [s EXCEPT !.actions = [i \in Envs |-> [j \in Dofs |->
        clip_action(filter_action(a[i][j], s.actions[i][j],
                                  IF cfg.action_delay THEN s.delay[i] ELSE 0))]]]

\* _post_physics_step_callback: the rows whose command is due
due_for_resampling(s) ==
    {i \in Envs : s.episode_length_buf[i] % (cfg.resampling_time \div dt) = 0}

\* a post-physics step that computes the reward before the termination check
post_physics_reward_first(s, ph, cmd, yaw) ==
    LET s0 == [s EXCEPT !.root_xy = [i \in Envs |->
                            << s.env_origins[i][1] + ph.root_off[i][1],
                               s.env_origins[i][2] + ph.root_off[i][2] >>],
                        !.contact_forces = ph.contact,
                        !.feet_forces = ph.feet,
                        !.base_lin_vel = ph.lin_vel,
                        !.episode_length_buf = [i \in Envs |-> @[i] + 1],
                        !.common_step_counter = @ + 1]
        s1 == resample_commands(s0, due_for_resampling(s0), cmd)
    IN  check_termination(compute_reward(s1))

\* post_physics_step up to compute_reward; ph holds the refreshed simulator tensors,
\* cmd the command draws, yaw the heading-error yaw rate computed from base_quat
post_physics(s, ph, cmd, yaw) ==
    LET s0 == [s EXCEPT !.root_xy = [i \in Envs |->
                            << s.env_origins[i][1] + ph.root_off[i][1],
                               s.env_origins[i][2] + ph.root_off[i][2] >>],
                        !.contact_forces = ph.contact,
                        !.feet_forces = ph.feet,
                        !.base_lin_vel = ph.lin_vel,
                        !.episode_length_buf = [i \in Envs |-> @[i] + 1],
                        !.common_step_counter = @ + 1]
        s1 == resample_commands(s0, due_for_resampling(s0), cmd)
        s2 == IF cfg.heading_command
              THEN [s1 EXCEPT !.commands = [i \in Envs |->
                       << @[i][1], @[i][2], yaw[i], @[i][4] >>]]
              ELSE s1
    IN  compute_reward(check_termination(s2))

\* compute_observations: the joint and action entries of one observation row
\* (privileged: with the scaled base linear velocity), before the noise
observation(s, i) ==
    [ dof_pos |-> [j \in Dofs |-> (s.dof_pos[i][j] - default_dof_pos[j]) * cfg.obs_scales.dof_pos],
      dof_vel |-> [j \in Dofs |-> s.dof_vel[i][j] * cfg.obs_scales.dof_vel],
      actions |-> s.actions[i] ]

privileged_observation(s, i) ==
    [ lin_vel |-> << s.base_lin_vel[i][1] * cfg.obs_scales.lin_vel,
                     s.base_lin_vel[i][2] * cfg.obs_scales.lin_vel >>,
      dof_pos |-> observation(s, i).dof_pos,
      dof_vel |-> observation(s, i).dof_vel,
      actions |-> s.actions[i] ]

\* _get_noise_scale_vec: the scale of the noise on each entry (none on the actions)
noise_scale_vec ==
    [ dof_pos |-> cfg.noise_scales.dof_pos * cfg.noise_level * cfg.obs_scales.dof_pos,
      dof_vel |-> cfg.noise_scales.dof_vel * cfg.noise_level * cfg.obs_scales.dof_vel ]

\* the values 2 * rand - 1 can take for one observation row
NoiseDraws ==
    [ dof_pos : [Dofs -> IF cfg.add_noise THEN scn.obs_noise ELSE {0}],
      dof_vel : [Dofs -> IF cfg.add_noise THEN scn.obs_noise ELSE {0}] ]

\* compute_observations, u[i] the uniform draws of row i
compute_observations(s, u) ==
    [s EXCEPT
       !.privileged_obs_buf = [i \in Envs |-> privileged_observation(s, i)],
       !.obs_buf = [i \in Envs |->
           [ dof_pos |-> [j \in Dofs |->
                 observation(s, i).dof_pos[j] + u[i].dof_pos[j] * noise_scale_vec.dof_pos],
             dof_vel |-> [j \in Dofs |->
                 observation(s, i).dof_vel[j] + u[i].dof_vel[j] * noise_scale_vec.dof_vel],
             actions |-> observation(s, i).actions ]]]

\* no clip of the observations at all
unclipped_obs(x) == x

\* step(): torch.clip(x, -clip_observations, clip_observations)
clip_obs(x) == TorchClip(x, -cfg.clip_observations, cfg.clip_observations)

\* step() after post_physics_step: the clip of both observation buffers
clip_observations(s) ==
    [s EXCEPT
       !.obs_buf = [i \in Envs |->
           [ dof_pos |-> [j \in Dofs |-> clip_obs(@[i].dof_pos[j])],
             dof_vel |-> [j \in Dofs |-> clip_obs(@[i].dof_vel[j])],
             actions |-> [j \in Dofs |-> clip_obs(@[i].actions[j])] ]],
       !.privileged_obs_buf = [i \in Envs |->
           [ lin_vel |-> << clip_obs(@[i].lin_vel[1]), clip_obs(@[i].lin_vel[2]) >>,
             dof_pos |-> [j \in Dofs |-> clip_obs(@[i].dof_pos[j])],
             dof_vel |-> [j \in Dofs |-> clip_obs(@[i].dof_vel[j])],
             actions |-> [j \in Dofs |-> clip_obs(@[i].actions[j])] ]]]

\* shadow copies that skip the environments reset in the step
shadow_copies_of_running_rows(s) ==
    LET running == {i \in Envs : s.reset_buf[i] = 0}
    IN  [s EXCEPT !.last_actions = SetRows(@, running, s.actions),
                  !.last_dof_pos = SetRows(@, running, s.dof_pos),
                  !.last_dof_vel = SetRows(@, running, s.dof_vel),
                  !.last_torques = SetRows(@, running, s.torques)]

\* post_physics_step after compute_observations: the shadow copies
shadow_copies(s) ==
    [s EXCEPT !.last_actions = s.actions,
              !.last_dof_pos = s.dof_pos,
              !.last_dof_vel = s.dof_vel,
              !.last_torques = s.torques]

\* ----------------------------------------------------------------- actions
\* get_amp_observations, row i: the joint positions and the joint velocities
\* (the blocks read from root_states and the toe positions are not carried here)
get_amp_observations(s, i) == [dof_pos |-> s.dof_pos[i], dof_vel |-> s.dof_vel[i]]

\* step(actions): the filter and the clip, then into the decimation loop; the policy's
\* actions, or the zero actions reset() passes
BeginStep ==
    /\ pc \in {"idle", "reset_call"}
    /\ common_step_counter < scn.steps
    /\ \E a \in IF pc = "idle" THEN [Envs -> [Dofs -> scn.action]]
                 ELSE {[i \in Envs |-> ZeroDofs]} :
           Commit(begin_step(Self, a)) /\ step_actions' = a
    /\ pc' = "torque"
    /\ substep' = 0
    /\ ret' = [op |-> "none", env_ids |-> {}]
    /\ UNCHANGED << cfg, scn, env_ids, terminal_amp_states >>

\* the decimation loop: _compute_torques and set_dof_actuation_force_tensor;
\* an unknown control type raises NameError
ApplyTorques ==
    /\ pc = "torque"
    /\ IF known_control_type
       THEN /\ Commit([Self EXCEPT !.torques = compute_torques(Self)])
            /\ pc' = "sim"
       ELSE /\ Commit(Self)
            /\ pc' = "crashed"
    /\ UNCHANGED << cfg, scn, substep, env_ids, terminal_amp_states, ret, step_actions >>

\* the decimation loop: simulate and refresh_dof_state_tensor
Simulate ==
    /\ pc = "sim"
    /\ \E q \in [Envs -> [Dofs -> scn.dof_pos]], v \in [Envs -> [Dofs -> scn.dof_vel]] :
           Commit([Self EXCEPT !.dof_pos = q, !.dof_vel = v])
    /\ substep' = substep + 1
    /\ pc' = IF substep + 1 < cfg.decimation THEN "torque" ELSE "post"
    /\ UNCHANGED << cfg, scn, env_ids, terminal_amp_states, ret, step_actions >>

\* post_physics_step: refresh, counters, callback, check_termination, compute_reward,
\* env_ids = reset_buf.nonzero(), terminal_amp_states = get_amp_observations()[env_ids]
PostPhysics ==
    /\ pc = "post"
    /\ \E ph \in [ root_off : [Envs -> scn.root_off],
                   contact : [Envs -> scn.contact],
                   feet : [Envs -> [Feet -> scn.feet_force]],
                   lin_vel : [Envs -> scn.lin_vel] ] :
         LET bumped == [Self EXCEPT !.episode_length_buf = [i \in Envs |-> @[i] + 1]]
             due == due_for_resampling(bumped)
         IN  \E cmd \in [due -> CmdDraws(Self)],
                yaw \in [Envs -> IF cfg.heading_command
                                 THEN Uniform(-10, 10, scn.cmd_yaw) ELSE {0}] :
               LET s1 == post_physics(Self, ph, cmd, yaw)
               IN  /\ Commit(s1)
                   /\ env_ids' = {i \in Envs : s1.reset_buf[i] # 0}
                   /\ terminal_amp_states' =
                          [i \in {e \in Envs : s1.reset_buf[e] # 0} |->
                              get_amp_observations(s1, i)]
    /\ pc' = "reset"
    /\ UNCHANGED << cfg, scn, substep, ret, step_actions >>

\* post_physics_step: reset_idx(env_ids)
ResetFlagged ==
    /\ pc = "reset"
    /\ \E s1 \in reset_idx(Self, env_ids) : Commit(s1)
    /\ pc' = "obs"
    /\ ret' = [op |-> "reset_idx", env_ids |-> env_ids]
    /\ UNCHANGED << cfg, scn, substep, env_ids, terminal_amp_states, step_actions >>

\* post_physics_step: compute_observations and the shadow copies; step(): the clip
\* of the observations, and the return
FinishStep ==
    /\ pc = "obs"
    /\ \E u \in [Envs -> NoiseDraws] :
           Commit(clip_observations(shadow_copies(compute_observations(Self, u))))
    /\ pc' = "idle"
    /\ ret' = [op |-> "step", env_ids |-> env_ids]
    /\ UNCHANGED << cfg, scn, substep, env_ids, terminal_amp_states, step_actions >>

\* reset_idx(env_ids) called from outside step(), on any index set
ResetIdxCall ==
    /\ pc = "idle"
    /\ (cfg.randomize_motor /\ cfg.randomize_gains) =>
           \A i \in Envs, j \in Dofs : d_gains_all[i][j] <= MaxGain
    /\ \E ids \in SUBSET Envs :
         /\ \E s1 \in reset_idx(Self, ids) : Commit(s1)
         /\ ret' = [op |-> "reset_idx", env_ids |-> ids]
    /\ UNCHANGED << cfg, scn, pc, substep, env_ids, terminal_amp_states, step_actions >>

\* reset(): reset_idx of every environment; step() with zero actions follows
Reset ==
    /\ pc = "idle"
    /\ common_step_counter < scn.steps
    /\ \E s1 \in reset_idx(Self, Envs) : Commit(s1)
    /\ pc' = "reset_call"
    /\ ret' = [op |-> "reset_idx", env_ids |-> Envs]
    /\ UNCHANGED << cfg, scn, substep, env_ids, terminal_amp_states, step_actions >>

Next ==
    \/ BeginStep
    \/ ApplyTorques
    \/ Simulate
    \/ PostPhysics
    \/ ResetFlagged
    \/ FinishStep
    \/ ResetIdxCall
    \/ Reset

\* ---------------------------------------------------------- construction
\* _get_env_origins: the terrain column of an environment
terrain_type_of(i) == (i * cfg.num_cols) \div NumEnvs

\* _get_env_origins on a plane: a grid of floor(sqrt(num_envs)) columns
grid_cols == CHOOSE c \in 1 .. NumEnvs : c * c <= NumEnvs /\ NumEnvs < (c + 1) * (c + 1)

grid_origin(i) == << cfg.env_spacing * (i \div grid_cols), cfg.env_spacing * (i % grid_cols) >>

\* the state after __init__ under configuration c, in scenario w
InitWith(c, w) ==
    /\ cfg = c
    /\ scn = w
    /\ pc = "idle"
    /\ substep = 0
    /\ env_ids = {}
    /\ terminal_amp_states = << >>
    /\ init_done = TRUE
    /\ ret = [op |-> "init", env_ids |-> {}]
    /\ common_step_counter = 0
    /\ episode_length_buf = [i \in Envs |-> 0]
    /\ \E b \in {0, 1} : reset_buf = [i \in Envs |-> b]
    /\ time_out_buf = [i \in Envs |-> 0]
    /\ rew_buf = [i \in Envs |-> 0]
    /\ episode_sums = [k \in DOMAIN reward_scales |-> [i \in Envs |-> 0]]
    /\ commands = [i \in Envs |-> << 0, 0, 0, 0 >>]
    /\ command_ranges = cfg.ranges
    /\ terrain_types = [i \in Envs |-> IF custom_origins THEN terrain_type_of(i) ELSE 0]
    /\ terrain_levels \in
         [Envs -> IF custom_origins
                  THEN 0 .. (IF cfg.terrain_curriculum THEN cfg.max_init_terrain_level
                             ELSE cfg.num_rows - 1)
                  ELSE {0}]
    /\ env_origins = [i \in Envs |->
                        IF custom_origins
                        THEN terrain_origins(terrain_levels[i], terrain_types[i])
                        ELSE grid_origin(i)]
    /\ root_xy = env_origins
    /\ contact_forces = [i \in Envs |-> 0]
    /\ feet_forces = [i \in Envs |-> ZeroFeet]
    /\ last_contacts = [i \in Envs |-> [f \in Feet |-> FALSE]]
    /\ feet_air_time = [i \in Envs |-> ZeroFeet]
    /\ base_lin_vel = [i \in Envs |-> << 0, 0 >>]
    /\ actions = [i \in Envs |-> ZeroDofs]
    /\ last_actions = [i \in Envs |-> ZeroDofs]
    /\ dof_pos = [i \in Envs |-> ZeroDofs]
    /\ dof_vel = [i \in Envs |-> ZeroDofs]
    /\ last_dof_pos = [i \in Envs |-> ZeroDofs]
    /\ last_dof_vel = [i \in Envs |-> ZeroDofs]
    /\ torques = [i \in Envs |-> ZeroDofs]
    /\ last_torques = [i \in Envs |-> ZeroDofs]
    /\ motor_strength \in [{1, 2} -> [Envs -> [Dofs -> cfg.motor_strength_range]]]
    /\ \E m \in [Envs -> MotorDraws] :
         LET s0 == [ p_gains_all |-> [i \in Envs |-> p_gains],
                     d_gains_all |-> [i \in Envs |-> d_gains],
                     torque_multi |-> [i \in Envs |-> [j \in Dofs |-> 1]],
                     motor_offsets |-> [i \in Envs |-> ZeroDofs],
                     joint_coulomb |-> [i \in Envs |-> ZeroDofs],
                     joint_viscous |-> [i \in Envs |-> ZeroDofs] ]
             s1 == randomize_motor_props(s0, Envs, m)
         IN  /\ p_gains_all = s1.p_gains_all
             /\ d_gains_all = s1.d_gains_all
             /\ torque_multi = s1.torque_multi
             /\ motor_offsets = s1.motor_offsets
             /\ joint_coulomb = s1.joint_coulomb
             /\ joint_viscous = s1.joint_viscous
    /\ delay \in [Envs -> cfg.action_delay_range]
    /\ \E m \in [Envs -> DofDraws] :
         LET s0 == [ joint_friction_factor |-> [i \in Envs |->
                         [j \in factor_cols(cfg.randomize_joint_friction_each_joint) |-> 1]],
                     joint_damping_factor |-> [i \in Envs |->
                         [j \in factor_cols(cfg.randomize_joint_damping_each_joint) |-> 1]],
                     joint_armature_factor |-> [i \in Envs |->
                         [j \in factor_cols(cfg.randomize_joint_armature_each_joint) |-> 1]] ]
             s1 == randomize_dof_props(s0, Envs, m)
         IN  /\ joint_friction_factor = s1.joint_friction_factor
             /\ joint_damping_factor = s1.joint_damping_factor
             /\ joint_armature_factor = s1.joint_armature_factor
    /\ obs_buf = [i \in Envs |->
                    [dof_pos |-> ZeroDofs, dof_vel |-> ZeroDofs, actions |-> ZeroDofs]]
    /\ privileged_obs_buf = [i \in Envs |->
                    [lin_vel |-> << 0, 0 >>, dof_pos |-> ZeroDofs, dof_vel |-> ZeroDofs,
                     actions |-> ZeroDofs]]
    /\ step_actions = [i \in Envs |-> ZeroDofs]
    /\ extras = [episode |-> << >>, time_outs |-> << >>]

\* ----------------------------------------------------------- configurations
\* A configuration in the model's units.  A *_range entry of domain_rand is the set
\* of sample points torch_rand_float is taken to return from that range.
BaseCfg ==
    [ decimation |-> 2, sim_dt |-> 5,
      mesh_type |-> "trimesh", terrain_curriculum |-> TRUE,
      num_rows |-> 2, num_cols |-> 1, max_init_terrain_level |-> 1,
      env_length |-> 2, env_width |-> 2, env_spacing |-> 3,
      control_type |-> "P", stiffness |-> 20, damping |-> 1, default_joint_angle |-> 0,
      effort |-> 30, action_scale |-> 1, clip_actions |-> 5,
      scales |-> [tracking_lin_vel |-> 0, termination |-> -50, action_rate |-> 0,
                  dof_vel |-> 0, torques |-> 0, feet_air_time |-> 1],
      only_positive_rewards |-> TRUE, check_contact |-> TRUE, send_timeouts |-> TRUE,
      heading_command |-> FALSE, resampling_time |-> 20,
      commands_curriculum |-> FALSE, max_curriculum |-> 10,
      ranges |-> [lin_vel_x |-> << -50, 50 >>, lin_vel_y |-> << -10, 10 >>,
                  ang_vel_yaw |-> << -10, 10 >>, heading |-> << -31, 31 >>],
      RSI |-> FALSE, RSI_rand |-> FALSE,
      action_delay |-> FALSE, action_delay_range |-> {0},
      randomize_motor |-> FALSE, motor_strength_range |-> {1},
      randomize_torque |-> FALSE, torque_multiplier_range |-> {1},
      randomize_motor_offset |-> FALSE, motor_offset_range |-> {0},
      randomize_gains |-> FALSE, stiffness_multiplier_range |-> {1},
      damping_multiplier_range |-> {1},
      randomize_coulomb_friction |-> FALSE, joint_coulomb_range |-> {0},
      joint_viscous_range |-> {0},
      randomize_joint_friction |-> FALSE, randomize_joint_friction_each_joint |-> FALSE,
      joint_friction_factor |-> {1},
      randomize_joint_damping |-> FALSE, randomize_joint_damping_each_joint |-> FALSE,
      joint_damping_factor |-> {1},
      randomize_joint_armature |-> FALSE, randomize_joint_armature_each_joint |-> FALSE,
      joint_armature_factor |-> {1},
      clip_observations |-> 100,
      obs_scales |-> [lin_vel |-> 2, dof_pos |-> 1, dof_vel |-> 1],
      add_noise |-> FALSE, noise_level |-> 1,
      noise_scales |-> [dof_pos |-> 1, dof_vel |-> 2] ]

\* the policy's actions, the simulator's tensors and the random draws of a run
BaseScn ==
    [ action |-> {0, 1}, dof_pos |-> {0}, dof_vel |-> {0},
      root_off |-> {<< 0, 0 >>, << 2, 0 >>},
      contact |-> {0, 2}, feet_force |-> {0}, lin_vel |-> {<< 0, 0 >>},
      cmd_x |-> {2, 50}, cmd_y |-> {0}, cmd_yaw |-> {0},
      reset_xy_noise |-> {<< 0, 0 >>}, dof_scale_halves |-> {2},
      frame_root_xy |-> {<< 0, 0 >>}, frame_dof_pos |-> {0}, frame_dof_vel |-> {0},
      rsi_noise |-> {0}, obs_noise |-> {-1, 0, 1},
      steps |-> MaxSteps ]

\* the environment on a curriculum terrain: episodes, resets, commands, levels
Init == InitWith(BaseCfg, BaseScn)

Spec == Init /\ [][Next]_vars

\* ------------------------------------------------------ properties of Spec
\* C1: right after reset_idx(env_ids) returns, with env_ids not empty, every row i
\* of env_ids has episode_length_buf[i] = 0, last_actions[i] = 0 on all joints,
\* feet_air_time[i] = 0 on all feet and reset_buf[i] = 1, whatever they held before.
C1_ResetIdxClearsRows ==
    ret.op = "reset_idx" =>
        \A i \in ret.env_ids :
            /\ episode_length_buf[i] = 0
            /\ last_actions[i] = ZeroDofs
            /\ feet_air_time[i] = ZeroFeet
            /\ reset_buf[i] = 1

\* reset_idx of one row that had run a step with a non-zero action, next to a row
\* it left alone, which still holds a step count, an air time and its last action
C1_Witness ==
    /\ ret.op = "reset_idx"
    /\ pc = "idle"
    /\ \E i \in ret.env_ids, j \in Envs \ ret.env_ids :
           /\ actions[i] # ZeroDofs
           /\ last_actions[i] = ZeroDofs
           /\ episode_length_buf[j] > 0
           /\ feet_air_time[j] # ZeroFeet
           /\ last_actions[j] # ZeroDofs
           /\ reset_buf[j] = 0

\* C2: in every reachable state, each environment's command has an xy-norm above
\* 0.2 m/s or is exactly (0, 0) in x and y: a draw whose norm is <= 0.2 is stored as zero.
C2_CommandDeadband ==
    \A i \in Envs :
        \/ Norm2(<< commands[i][1], commands[i][2] >>) > CommandDeadband * CommandDeadband
        \/ commands[i][1] = 0 /\ commands[i][2] = 0

\* reset_idx has resampled two rows from draws that are all non-zero in x: one row
\* was zeroed by the deadband, the other kept its draw
C2_Witness ==
    /\ 0 \notin scn.cmd_x
    /\ \E v \in scn.cmd_x : v * v <= CommandDeadband * CommandDeadband
    /\ ret.op = "reset_idx"
    /\ \E i \in ret.env_ids, j \in ret.env_ids :
           /\ commands[i][1] = 0 /\ commands[i][2] = 0
           /\ commands[j][1] \in scn.cmd_x

\* the squared distance of a robot from its origin, and the two tests of the curriculum
walked2(i) ==
    (root_xy[i][1] - env_origins[i][1]) * (root_xy[i][1] - env_origins[i][1])
      + (root_xy[i][2] - env_origins[i][2]) * (root_xy[i][2] - env_origins[i][2])

walked_far(i) == 4 * walked2(i) > cfg.env_length * cfg.env_length

walked_little(i) ==
    40000 * walked2(i)
      < (commands[i][1] * commands[i][1] + commands[i][2] * commands[i][2])
          * TrajectoryLen * TrajectoryLen

\* C6: when reset_idx is about to update the terrain curriculum, the level of each
\* flagged environment, before the reassignment at the maximum, is its level + 1 if it
\* walked more than env_length / 2, else its level - 1 if it walked less than half
\* the commanded distance, else its level: never both, never more than one.
C6_LevelStepsByOne ==
    (pc = "reset" /\ terrain_curriculum) =>
        \A i \in env_ids :
            stepped_level(Self, i) =
                terrain_levels[i]
                  + (IF walked_far(i) THEN 1 ELSE IF walked_little(i) THEN -1 ELSE 0)

\* flagged environments of all three kinds, one of them both far and short of its
\* commanded distance
C6_Witness ==
    /\ pc = "reset"
    /\ terrain_curriculum
    /\ \E i \in env_ids : walked_far(i) /\ walked_little(i)
    /\ \E i \in env_ids : ~walked_far(i) /\ walked_little(i)

C7_LevelInRange == \A i \in Envs : 0 <= terrain_levels[i] /\ terrain_levels[i] <= max_terrain_level

C7_LevelWrittenByCurriculum ==
    /\ \A i \in Envs :
           terrain_levels'[i] # terrain_levels[i] =>
               /\ pc \in {"reset", "idle"}
               /\ ret'.op = "reset_idx"
               /\ i \in ret'.env_ids
    /\ (pc \in {"reset", "idle"} /\ ret'.op = "reset_idx") =>
           \A i \in ret'.env_ids :
               LET level == stepped_level(Self, i)
               IN  /\ level < 0 => terrain_levels'[i] = 0
                   /\ level >= max_terrain_level =>
                          terrain_levels'[i] \in 0 .. (max_terrain_level - 1)
                   /\ (0 <= level /\ level < max_terrain_level) => terrain_levels'[i] = level

\* C7: with the terrain curriculum on, every terrain level stays within
\* [0, max_level] in every reachable state; a level stepped below 0 is held at 0, a
\* level stepped to the maximum is reassigned to a valid level, and only the
\* curriculum update of reset_idx writes terrain_levels.
C7_TerrainLevelBounded ==
    /\ [](terrain_curriculum => C7_LevelInRange)
    /\ [][terrain_curriculum => C7_LevelWrittenByCurriculum]_vars

\* reset_idx about to run on a row stepping below level 0 and a row stepping to the
\* maximum
C7_Witness ==
    /\ pc = "reset"
    /\ terrain_curriculum
    /\ \E i \in env_ids, j \in env_ids :
           /\ stepped_level(Self, i) < 0
           /\ stepped_level(Self, j) >= max_terrain_level

\* C10: after check_termination and compute_reward of a step, an environment whose
\* step count exceeds max_episode_length and that has no termination contact has
\* time_out_buf = 1 and reset_buf = 1, and its termination reward term is 0.
C10_TimeoutWithoutPenalty ==
    pc = "reset" =>
        \A i \in Envs :
            (episode_length_buf[i] > max_episode_length
               /\ contact_forces[i] <= ContactThreshold) =>
                /\ time_out_buf[i] = 1
                /\ reset_buf[i] = 1
                /\ reward_function("termination", Self, i) = 0
                /\ rew_buf[i] = clamp_reward(loop_total(Self, i))

\* a step that times one environment out without contact, with a termination
\* scale in force, while the other environment ends on a contact and is penalised
C10_Witness ==
    /\ pc = "reset"
    /\ "termination" \in DOMAIN reward_scales
    /\ \E i \in Envs, j \in Envs :
           /\ episode_length_buf[i] > max_episode_length
           /\ contact_forces[i] <= ContactThreshold
           /\ reset_buf[i] = 1
           /\ contact_forces[j] > ContactThreshold
           /\ time_out_buf[j] = 0
           /\ rew_buf[j] < 0

\* ------------------------------------------------------- the torque stage
\* flat ground, no contacts: the controllers under out-of-range actions
TorqueCfg ==
    [BaseCfg EXCEPT !.mesh_type = "plane", !.check_contact = FALSE,
                    !.scales = [termination |-> -50]]

TorqueScn ==
    [BaseScn EXCEPT !.action = {-9, 1}, !.dof_pos = {1}, !.dof_vel = {-1, 2},
                    !.root_off = {<< 0, 0 >>}, !.contact = {0}, !.cmd_x = {50}]

\* every motor randomization on, gains aside, under limits wide enough for the
\* smaller action to stay unclipped
RandomizedMotorCfg ==
    [TorqueCfg EXCEPT !.effort = 300,
                      !.randomize_motor = TRUE, !.motor_strength_range = {2},
                      !.randomize_torque = TRUE, !.torque_multiplier_range = {3},
                      !.randomize_motor_offset = TRUE, !.motor_offset_range = {1},
                      !.randomize_coulomb_friction = TRUE, !.joint_coulomb_range = {1},
                      !.joint_viscous_range = {2}]

\* zero gains, zero default angle, with the motor randomization but no joint friction
ZeroGainCfg ==
    [TorqueCfg EXCEPT !.stiffness = 0, !.damping = 0,
                      !.randomize_motor = TRUE, !.motor_strength_range = {2},
                      !.randomize_torque = TRUE, !.torque_multiplier_range = {1, 3},
                      !.randomize_motor_offset = TRUE, !.motor_offset_range = {1}]

ZeroGainFrictionCfg ==
    [ZeroGainCfg EXCEPT !.randomize_coulomb_friction = TRUE, !.joint_coulomb_range = {1},
                        !.joint_viscous_range = {2}]

ZeroActionScn == [TorqueScn EXCEPT !.action = {0}]

TorqueCases ==
    { [cfg |-> TorqueCfg, scn |-> TorqueScn],
      [cfg |-> RandomizedMotorCfg, scn |-> TorqueScn],
      [cfg |-> [TorqueCfg EXCEPT !.control_type = "V", !.damping = 5], scn |-> TorqueScn],
      [cfg |-> [TorqueCfg EXCEPT !.control_type = "T", !.action_scale = 10,
                                 !.clip_actions = 50], scn |-> TorqueScn],
      [cfg |-> [TorqueCfg EXCEPT !.control_type = "X"], scn |-> TorqueScn],
      [cfg |-> ZeroGainCfg, scn |-> ZeroActionScn],
      [cfg |-> ZeroGainFrictionCfg, scn |-> ZeroActionScn] }

InitTorque == \E k \in TorqueCases : InitWith(k.cfg, k.scn)

SpecTorque == InitTorque /\ [][Next]_vars

\* C5: in every control mode, for every environment and joint, whatever the action
\* and the joint state, the torque _compute_torques returns lies within
\* [-torque_limits[j], torque_limits[j]], and so does the torques buffer on every sub-step.
C5_TorqueWithinLimits ==
    \A i \in Envs, j \in Dofs :
        /\ -torque_limits[j] <= torques[i][j] /\ torques[i][j] <= torque_limits[j]
        /\ known_control_type =>
               /\ -torque_limits[j] <= compute_torques(Self)[i][j]
               /\ compute_torques(Self)[i][j] <= torque_limits[j]

\* a sub-step of the velocity controller with one joint saturated at each limit, under an
\* action that the action clip had cut
C5_Witness ==
    /\ pc = "sim"
    /\ cfg.control_type = "V"
    /\ \E i \in Envs, k \in Envs, j \in Dofs :
           /\ raw_torque(Self, i, j) > torque_limits[j]
           /\ torques[i][j] = torque_limits[j]
           /\ raw_torque(Self, k, j) < -torque_limits[j]
           /\ torques[k][j] = -torque_limits[j]
           /\ actions[k][j] = -(cfg.clip_actions \div cfg.action_scale)

zero_gain_case(i, j) ==
    /\ cfg.control_type = "P"
    /\ p_gains[j] = 0 /\ d_gains[j] = 0
    /\ default_dof_pos[j] = 0
    /\ actions[i][j] = 0

\* C8: in position mode with zero gains, zero default angle and zero actions,
\* the commanded torque is 0 on every sub-step, whatever the joint state and the
\* motor randomization (strength, offset, coulomb and viscous friction, multiplier).
C8_ZeroGainZeroTorque ==
    pc = "sim" => \A i \in Envs, j \in Dofs : zero_gain_case(i, j) => torques[i][j] = 0

\* C8, amended: the torque is 0 on every sub-step, whatever the joint state, the motor
\* strength, the motor offset and the torque multiplier, provided the joint's coulomb
\* and viscous coefficients are 0 or the motor randomization is off.
C8_ZeroGainZeroTorqueWithoutFriction ==
    pc = "sim" =>
        \A i \in Envs, j \in Dofs :
            ( /\ zero_gain_case(i, j)
              /\ ~cfg.randomize_motor \/ (joint_coulomb[i][j] = 0 /\ joint_viscous[i][j] = 0) )
                => torques[i][j] = 0

\* a sub-step with zero gains, a joint away from its default angle and moving, a motor
\* strength, an offset and a multiplier away from neutral, no friction: torque 0
C8_Witness ==
    /\ pc = "sim"
    /\ \E i \in Envs, j \in Dofs :
           /\ zero_gain_case(i, j)
           /\ cfg.randomize_motor
           /\ joint_coulomb[i][j] = 0 /\ joint_viscous[i][j] = 0
           /\ dof_pos[i][j] # 0 /\ dof_vel[i][j] # 0
           /\ motor_strength[1][i][j] # 1 /\ motor_offsets[i][j] # 0
           /\ torque_multi[i][j] # 1
           /\ torques[i][j] = 0

\* the pre-clip torque as C9 states it
claimed_torque_P(i, j) ==
    ( motor_strength[1][i][j] * p_gains_all[i][j]
        * (actions_scaled(Self, i, j) + default_dof_pos[j] + motor_offsets[i][j]
             - dof_pos[i][j])
      - motor_strength[2][i][j] * d_gains_all[i][j] * dof_vel[i][j]
      - joint_coulomb[i][j] * Sign(dof_vel[i][j])
      - joint_viscous[i][j] * dof_vel[i][j] ) * torque_multi[i][j]

\* C9: in position mode with the motor randomization on, the torque of each joint is
\* the clip of [strength0 * p_gain * (scaled action + default + offset - pos)
\* - strength1 * d_gain * vel - coulomb * sign(vel) - viscous * vel] * multiplier.
C9_FrictionTorque ==
    (pc = "sim" /\ cfg.control_type = "P" /\ cfg.randomize_motor) =>
        \A i \in Envs, j \in Dofs : torques[i][j] = clip_torque(claimed_torque_P(i, j), j)

\* --------------------------------------------------------- the reward engine
\* flat ground; a tracking reward against a joint-velocity penalty, and a terminal penalty
RewardCfg ==
    [BaseCfg EXCEPT !.mesh_type = "plane", !.decimation = 1, !.sim_dt = 10,
                    !.scales = [tracking_lin_vel |-> 1, dof_vel |-> -80, termination |-> -50,
                                action_rate |-> 0]]

RewardScn ==
    [BaseScn EXCEPT !.action = {0}, !.dof_vel = {0, 1}, !.root_off = {<< 0, 0 >>}]

RewardCases ==
    { [cfg |-> RewardCfg, scn |-> RewardScn],
      [cfg |-> [RewardCfg EXCEPT !.only_positive_rewards = FALSE], scn |-> RewardScn] }

InitReward == \E k \in RewardCases : InitWith(k.cfg, k.scn)

SpecReward == InitReward /\ [][Next]_vars

\* the sum of the scaled terms other than the termination term, from the configuration
other_terms(i) ==
    LET names == {n \in DOMAIN cfg.scales : cfg.scales[n] # 0 /\ n # "termination"}
    IN  SumOver([n \in names |-> reward_function(n, Self, i) * cfg.scales[n] * dt], names)

\* C3: under only_positive_rewards, after compute_reward, the reward of an environment
\* less its termination contribution is never negative, and is exactly 0 when the sum of
\* its scaled non-termination terms is negative.
C3_RewardClamp ==
    (pc = "reset" /\ cfg.only_positive_rewards) =>
        \A i \in Envs :
            /\ rew_buf[i] - termination_term(Self, i) >= 0
            /\ other_terms(i) < 0 => rew_buf[i] - termination_term(Self, i) = 0

\* a step where one environment's terms sum below zero and are clamped, the other's
\* sum above zero and are kept
C3_Witness ==
    /\ pc = "reset"
    /\ cfg.only_positive_rewards
    /\ \E i \in Envs, j \in Envs :
           /\ other_terms(i) < 0
           /\ rew_buf[i] = termination_term(Self, i)
           /\ other_terms(j) > 0
           /\ rew_buf[j] = other_terms(j) + termination_term(Self, j)

\* C4: with a non-zero termination scale the termination term is not a term of the
\* loop and is added once, after the clamp: under only_positive_rewards an environment
\* that ends on a contact, not a time-out, is emitted max(0, sum of the other scaled
\* terms) + the termination scale (times dt, as every scale).
C4_TerminationAfterClamp ==
    (pc = "reset" /\ cfg.only_positive_rewards /\ cfg.scales.termination # 0) =>
        /\ "termination" \notin reward_names
        /\ \A i \in Envs :
               (reset_buf[i] = 1 /\ time_out_buf[i] = 0) =>
                   rew_buf[i] = Max2(0, other_terms(i)) + cfg.scales.termination * dt

\* an environment ending on a contact while its other terms sum below zero: the
\* emitted reward is the terminal penalty alone, and negative
C4_Witness ==
    /\ pc = "reset"
    /\ cfg.only_positive_rewards
    /\ \E i \in Envs, j \in Envs :
           /\ reset_buf[i] = 1 /\ time_out_buf[i] = 0
           /\ other_terms(i) < 0
           /\ rew_buf[i] = cfg.scales.termination * dt
           /\ rew_buf[i] < 0
           /\ reset_buf[j] = 1 /\ time_out_buf[j] = 0
           /\ other_terms(j) > 0

\* ------------------------------------------------------ the episode lifecycle
\* flat ground, with and without the contact check of check_termination
EpisodeCfg ==
    [BaseCfg EXCEPT !.mesh_type = "plane",
                    !.scales = [termination |-> -50, action_rate |-> 0]]

EpisodeScn ==
    [BaseScn EXCEPT !.root_off = {<< 0, 0 >>}, !.cmd_x = {50}]

EpisodeCases ==
    { [cfg |-> EpisodeCfg, scn |-> EpisodeScn],
      [cfg |-> [EpisodeCfg EXCEPT !.check_contact = FALSE], scn |-> EpisodeScn] }

InitEpisode == \E k \in EpisodeCases : InitWith(k.cfg, k.scn)

SpecEpisode == InitEpisode /\ [][Next]_vars

\* the environments whose termination contact force of the step exceeds the threshold
in_contact == {i \in Envs : contact_forces[i] > ContactThreshold}

\* C11 as stated: at the return of every step(), every environment whose termination
\* contact force exceeded 1.0 on that step is flagged in reset_buf and is among the
\* reset indices the step returns, whatever the configuration.
C11_ContactResets ==
    ret.op = "step" =>
        \A i \in in_contact : reset_buf[i] = 1 /\ i \in ret.env_ids

\* C11: with check_contact enabled, at the return of every step(), every environment
\* whose termination contact force exceeded 1.0 on that step is flagged in reset_buf and
\* is among the reset indices the step returns, whatever its episode length.
C11_ContactResetsWhenChecked ==
    (ret.op = "step" /\ cfg.check_contact) =>
        \A i \in in_contact : reset_buf[i] = 1 /\ i \in ret.env_ids

\* a step returns having reset the one environment in contact and not the other
C11_Witness ==
    /\ ret.op = "step"
    /\ cfg.check_contact
    /\ \E i \in Envs, j \in Envs :
           /\ i \in in_contact /\ reset_buf[i] = 1 /\ i \in ret.env_ids
           /\ j \notin in_contact /\ j \notin ret.env_ids

\* the environments whose done flag is set
flagged == {i \in Envs : reset_buf[i] = 1}

\* C12: at the return of every step(), the environments with reset_buf = 1 are exactly
\* the returned reset_env_ids, and each of them has been reset (episode_length_buf = 0):
\* no flagged environment is carried un-reset into the next step.
C12_ResetSynchronous ==
    ret.op = "step" =>
        /\ flagged = ret.env_ids
        /\ \A i \in ret.env_ids : episode_length_buf[i] = 0

\* a step returns with one environment flagged, returned and reset, and the other running
C12_Witness ==
    /\ ret.op = "step"
    /\ \E i \in Envs, j \in Envs :
           /\ flagged = {i} /\ ret.env_ids = {i} /\ episode_length_buf[i] = 0
           /\ episode_length_buf[j] > 0

\* the privileged observation of the current state, clipped as step() clips it
clipped_privileged_observation(i) ==
    [ lin_vel |-> << clip_obs(privileged_observation(Self, i).lin_vel[1]),
                     clip_obs(privileged_observation(Self, i).lin_vel[2]) >>,
      dof_pos |-> [j \in Dofs |-> clip_obs(privileged_observation(Self, i).dof_pos[j])],
      dof_vel |-> [j \in Dofs |-> clip_obs(privileged_observation(Self, i).dof_vel[j])],
      actions |-> [j \in Dofs |-> clip_obs(privileged_observation(Self, i).actions[j])] ]

\* C13 as stated: the reset of the flagged environments completes before the reward of
\* the step is computed, so once the reset is done the reward of every environment is
\* the reward function of the state the reset left.
C13_ResetBeforeReward ==
    [][(pc = "reset" /\ pc' = "obs") =>
          \A i \in Envs : rew_buf'[i] = total_reward(Self', i)]_vars

\* C13: within each step the termination check comes first, then the reward, then the
\* reset of the flagged environments, then the observation: when the reset is about to
\* run the reward is already the reward function of the not yet reset state and the
\* flagged environments are still unreset, the reset leaves the reward alone, and the
\* observation returned is that of the state after the reset.
C13_TerminationRewardResetObservation ==
    /\ [](pc = "reset" =>
             /\ \A i \in Envs : rew_buf[i] = total_reward(Self, i)
             /\ env_ids = {i \in Envs : reset_buf[i] = 1}
             /\ \A i \in env_ids : episode_length_buf[i] > 0)
    /\ [][pc = "reset" => rew_buf' = rew_buf]_vars
    /\ [](ret.op = "step" =>
             \A i \in Envs : privileged_obs_buf[i] = clipped_privileged_observation(i))

\* a step returns having reset an environment whose reward is not the reward of the
\* state the reset left, while its observation shows the joint velocity after the reset
C13_Witness ==
    /\ ret.op = "step"
    /\ \E i \in ret.env_ids :
           /\ rew_buf[i] # total_reward(Self, i)
           /\ \A j \in Dofs : dof_vel[i][j] = 0 /\ privileged_obs_buf[i].dof_vel[j] = 0

\* the scaled contribution of term k to environment i on the step just evaluated
contribution(k, i) ==
    IF k = "termination" THEN termination_term(Self, i) ELSE scaled_term(k, Self, i)

\* C14: episode_sums of a term and environment is the sum of the term's scaled
\* contributions over the steps since the environment's last reset: construction starts
\* it at 0, compute_reward adds the contribution of the step, a reset_idx sets the rows it
\* resets to 0 after reporting the mean of their sums in extras['episode'] and leaves the
\* other rows alone, nothing else writes it, and at the return of a step the sums of the
\* environments reset in that step are 0.
C14_EpisodeSumsSinceReset ==
    /\ [][\A k \in DOMAIN reward_scales :
            IF pc = "post"
            THEN \A i \in Envs :
                     episode_sums'[k][i] = episode_sums[k][i] + contribution(k, i)'
            ELSE IF ret'.op = "reset_idx" /\ ret'.env_ids # {}
            THEN /\ \A i \in ret'.env_ids : episode_sums'[k][i] = 0
                 /\ \A i \in Envs \ ret'.env_ids : episode_sums'[k][i] = episode_sums[k][i]
                 /\ extras'.episode.rew[k] =
                        << SumOver([i \in ret'.env_ids |-> episode_sums[k][i]], ret'.env_ids),
                           Cardinality(ret'.env_ids) * max_episode_length_s >>
            ELSE episode_sums'[k] = episode_sums[k]]_vars
    /\ [](ret.op = "init" => \A k \in DOMAIN reward_scales, i \in Envs : episode_sums[k][i] = 0)
    /\ [](ret.op = "step" =>
             \A k \in DOMAIN reward_scales, i \in ret.env_ids : episode_sums[k][i] = 0)

\* a step returns having reset one environment: its non-zero sum is reported and cleared,
\* the sum of the environment that runs on is kept
C14_Witness ==
    /\ ret.op = "step"
    /\ \E k \in DOMAIN reward_scales, i \in ret.env_ids, j \in Envs \ ret.env_ids :
           /\ extras.episode.rew[k][1] # 0
           /\ episode_sums[k][i] = 0
           /\ episode_sums[k][j] # 0

\* C15: a reset_idx called with an empty index set returns without changing anything:
\* no per-environment buffer, no curriculum state, no command range, no extras.
C15_EmptyResetIsNoOp ==
    [][(ret'.op = "reset_idx" /\ ret'.env_ids = {}) => Self' = Self]_vars

\* inside a step that flagged no environment, reset_idx has returned on the empty set,
\* with episodes running and the extras of an earlier reset still in place
C15_Witness ==
    /\ ret.op = "reset_idx"
    /\ ret.env_ids = {}
    /\ pc = "obs"
    /\ extras.episode # << >>
    /\ \A i \in Envs : episode_length_buf[i] > 0 /\ reset_buf[i] = 0

\* ------------------------------------------------------ domain randomization
\* rough terrain with its curriculum; one group of randomized parameters per case
MotorCfg ==
    [BaseCfg EXCEPT !.scales = [termination |-> -50, action_rate |-> 0],
                    !.randomize_motor = TRUE]

MotorScn ==
    [BaseScn EXCEPT !.action = {0}, !.cmd_x = {50}, !.contact = {0}]

MotorCases ==
    { [cfg |-> [MotorCfg EXCEPT !.randomize_torque = TRUE,
                                !.torque_multiplier_range = {1, 2},
                                !.randomize_joint_friction = TRUE,
                                !.joint_friction_factor = {1, 2}],
       scn |-> MotorScn],
      [cfg |-> [MotorCfg EXCEPT !.mesh_type = "plane",
                                !.randomize_motor_offset = TRUE,
                                !.motor_offset_range = {0, 1},
                                !.randomize_joint_damping = TRUE,
                                !.randomize_joint_damping_each_joint = TRUE,
                                !.joint_damping_factor = {1, 2}],
       scn |-> [MotorScn EXCEPT !.root_off = {<< 0, 0 >>}]],
      [cfg |-> [MotorCfg EXCEPT !.mesh_type = "plane",
                                !.randomize_coulomb_friction = TRUE,
                                !.joint_coulomb_range = {0, 1},
                                !.joint_viscous_range = {2},
                                !.randomize_joint_armature = TRUE,
                                !.joint_armature_factor = {1, 2}],
       scn |-> [MotorScn EXCEPT !.root_off = {<< 0, 0 >>}]],
      [cfg |-> [MotorCfg EXCEPT !.mesh_type = "plane",
                                !.randomize_gains = TRUE,
                                !.stiffness_multiplier_range = {1, 2},
                                !.damping_multiplier_range = {1, 2}],
       scn |-> [MotorScn EXCEPT !.root_off = {<< 0, 0 >>}]] }

InitMotor == \E k \in MotorCases : InitWith(k.cfg, k.scn)

SpecMotor == InitMotor /\ [][Next]_vars

\* the rows of environment i in the per-environment buffers of state s
rows_of(s, i) ==
    [ torque_multi |-> s.torque_multi[i], motor_offsets |-> s.motor_offsets[i],
      p_gains_all |-> s.p_gains_all[i], d_gains_all |-> s.d_gains_all[i],
      joint_coulomb |-> s.joint_coulomb[i], joint_viscous |-> s.joint_viscous[i],
      joint_friction_factor |-> s.joint_friction_factor[i],
      joint_damping_factor |-> s.joint_damping_factor[i],
      joint_armature_factor |-> s.joint_armature_factor[i],
      episode_length_buf |-> s.episode_length_buf[i],
      episode_sums |-> [k \in DOMAIN s.episode_sums |-> s.episode_sums[k][i]],
      last_actions |-> s.last_actions[i], last_dof_pos |-> s.last_dof_pos[i],
      last_dof_vel |-> s.last_dof_vel[i], last_torques |-> s.last_torques[i],
      feet_air_time |-> s.feet_air_time[i], commands |-> s.commands[i],
      terrain_levels |-> s.terrain_levels[i], env_origins |-> s.env_origins[i] ]

\* C16: randomize_motor_props(env_ids), randomize_dof_props(env_ids) and
\* reset_idx(env_ids) leave every per-environment buffer row of an environment outside
\* env_ids unchanged, for every index set and every draw.
C16_RowsOutsideEnvIdsUnchanged ==
    /\ [](\A ids \in SUBSET Envs : \A i \in Envs \ ids :
             /\ \A m \in [ids -> MotorDraws] :
                    rows_of(randomize_motor_props(Self, ids, m), i) = rows_of(Self, i)
             /\ \A m \in [ids -> DofDraws] :
                    rows_of(randomize_dof_props(Self, ids, m), i) = rows_of(Self, i))
    /\ [][ret'.op = "reset_idx" =>
             \A i \in Envs \ ret'.env_ids : rows_of(Self', i) = rows_of(Self, i)]_vars

\* reset_idx has returned from resetting one environment, whose randomized row differs
\* from the row of the environment it left alone, which is in the middle of an episode
C16_Witness ==
    /\ ret.op = "reset_idx"
    /\ \E i \in Envs, j \in Envs :
           /\ ret.env_ids = {i}
           /\ episode_length_buf[i] = 0
           /\ episode_length_buf[j] > 0
           /\ << torque_multi[i], motor_offsets[i], d_gains_all[i], joint_coulomb[i],
                 joint_friction_factor[i], joint_damping_factor[i], joint_armature_factor[i] >>
                # << torque_multi[j], motor_offsets[j], d_gains_all[j], joint_coulomb[j],
                     joint_friction_factor[j], joint_damping_factor[j],
                     joint_armature_factor[j] >>

\* the least and the greatest point of a configured range
range_min(S) == CHOOSE x \in S : \A y \in S : x <= y

range_max(S) == CHOOSE x \in S : \A y \in S : x >= y

\* C17 as stated: with gain randomization enabled, after creation and after any number
\* of resets, p_gains_all[i][j] lies within the stiffness multiplier range times the
\* nominal p_gain[j], and d_gains_all[i][j] within the damping multiplier range times the
\* nominal d_gain[j].
C17_GainsWithinRange ==
    (cfg.randomize_motor /\ cfg.randomize_gains) =>
        \A i \in Envs, j \in Dofs :
            /\ p_gains_all[i][j] >= range_min(cfg.stiffness_multiplier_range) * p_gains[j]
            /\ p_gains_all[i][j] <= range_max(cfg.stiffness_multiplier_range) * p_gains[j]
            /\ d_gains_all[i][j] >= range_min(cfg.damping_multiplier_range) * d_gains[j]
            /\ d_gains_all[i][j] <= range_max(cfg.damping_multiplier_range) * d_gains[j]

\* ------------------------------------------------------- the action filter
\* flat ground, one control sub-step per step; actions within and beyond the action
\* clip, with the action delay (coefficients 0 and 3/4) and without it
ActionCfg ==
    [BaseCfg EXCEPT !.mesh_type = "plane", !.decimation = 1, !.sim_dt = 10,
                    !.scales = [termination |-> -50, action_rate |-> 0],
                    !.action_delay_range = {0, 3}]

ActionScn ==
    [BaseScn EXCEPT !.action = {-8, 4}, !.contact = {0}, !.root_off = {<< 0, 0 >>},
                    !.cmd_x = {50}]

ActionCases ==
    { [cfg |-> [ActionCfg EXCEPT !.action_delay = TRUE], scn |-> ActionScn],
      [cfg |-> ActionCfg, scn |-> ActionScn] }

InitAction == \E k \in ActionCases : InitWith(k.cfg, k.scn)

SpecAction == InitAction /\ [][Next]_vars

\* the delay coefficient step() filters environment i with, in quarters
delay_of(i) == IF cfg.action_delay THEN delay[i] ELSE 0

\* the bound of the action clip
action_bound == cfg.clip_actions \div cfg.action_scale

\* C18: the action step(a) stores for environment i is
\* clip((1 - delay_i) * a_i + delay_i * previous stored action_i, +-clip_actions /
\* action_scale), with delay_i the coefficient drawn at construction (0 when action_delay
\* is disabled); the rest of the step leaves the stored action alone, the coefficient is
\* never changed, and the stored action is always within +-clip_actions / action_scale.
C18_ActionFilter ==
    /\ [][IF pc' = "torque" /\ pc # "sim"
          THEN \A i \in Envs, j \in Dofs :
                   actions'[i][j] =
                       Max2(-action_bound, Min2(action_bound,
                           ((4 - delay_of(i)) * step_actions'[i][j]
                              + delay_of(i) * actions[i][j]) \div 4))
          ELSE actions' = actions]_vars
    /\ [][delay' = delay]_vars
    /\ [](\A i \in Envs, j \in Dofs :
             actions[i][j] >= -action_bound /\ actions[i][j] <= action_bound)

\* a step has returned whose stored actions are a delayed action inside the clip for one
\* environment and an action cut at the clip for the other
C18_Witness ==
    /\ ret.op = "step"
    /\ cfg.action_delay
    /\ \E i \in Envs, j \in Envs, k \in Dofs :
           /\ delay[i] > 0
           /\ actions[i][k] # step_actions[i][k]
           /\ actions[i][k] > -action_bound /\ actions[i][k] < action_bound
           /\ step_actions[j][k] < -action_bound
           /\ actions[j][k] = -action_bound

\* ------------------------------------------------------- the observations
\* flat ground, one control sub-step per step; joint positions, actions and base
\* velocities beyond the observation clip, with and without the observation noise
ObservationCfg ==
    [BaseCfg EXCEPT !.mesh_type = "plane", !.decimation = 1, !.sim_dt = 10,
                    !.scales = [termination |-> -50, action_rate |-> 0],
                    !.clip_observations = 3,
                    !.noise_scales = [dof_pos |-> 1, dof_vel |-> 0]]

ObservationScn ==
    [BaseScn EXCEPT !.action = {0, 4}, !.dof_pos = {0, 3}, !.contact = {0},
                    !.root_off = {<< 0, 0 >>}, !.lin_vel = {<< -2, 1 >>},
                    !.cmd_x = {50}, !.obs_noise = {-1, 1}]

ObservationCases ==
    { [cfg |-> [ObservationCfg EXCEPT !.add_noise = TRUE], scn |-> ObservationScn],
      [cfg |-> ObservationCfg, scn |-> ObservationScn] }

InitObservation == \E k \in ObservationCases : InitWith(k.cfg, k.scn)

SpecObservation == InitObservation /\ [][Next]_vars

\* x lies within the observation clip
within_clip(x) == x >= -cfg.clip_observations /\ x <= cfg.clip_observations

\* v is x cut to the observation clip
cut_to_clip(v, x) ==
    v = Max2(-cfg.clip_observations, Min2(cfg.clip_observations, x))

\* the noise a joint-position entry of the policy observation can carry
dof_pos_noise ==
    IF cfg.add_noise
    THEN {u * cfg.noise_scales.dof_pos * cfg.noise_level * cfg.obs_scales.dof_pos :
             u \in scn.obs_noise}
    ELSE {0}

\* C19: at the return of every step() (that of reset() included) every component of the
\* policy observation and of the privileged observation lies within +-clip_observations;
\* the clip comes after the noise (a joint-position entry is its noisy value cut to the
\* clip), and nothing but the end of step() writes the two buffers, so they are still
\* the clipped ones when the caller reads them.
C19_ObservationsClipped ==
    /\ [](ret.op = "step" =>
             \A i \in Envs :
                 /\ \A j \in Dofs :
                        /\ within_clip(obs_buf[i].dof_pos[j])
                        /\ within_clip(obs_buf[i].dof_vel[j])
                        /\ within_clip(obs_buf[i].actions[j])
                        /\ within_clip(privileged_obs_buf[i].dof_pos[j])
                        /\ within_clip(privileged_obs_buf[i].dof_vel[j])
                        /\ within_clip(privileged_obs_buf[i].actions[j])
                        /\ \E n \in dof_pos_noise :
                               cut_to_clip(obs_buf[i].dof_pos[j],
                                           (dof_pos[i][j] - default_dof_pos[j])
                                               * cfg.obs_scales.dof_pos + n)
                 /\ within_clip(privileged_obs_buf[i].lin_vel[1])
                 /\ within_clip(privileged_obs_buf[i].lin_vel[2]))
    /\ [][pc # "obs" =>
             obs_buf' = obs_buf /\ privileged_obs_buf' = privileged_obs_buf]_vars

\* a step returns observations cut at the clip: a base velocity and a stored action
\* beyond it, and a joint position pushed beyond it by the noise
C19_Witness ==
    /\ ret.op = "step"
    /\ cfg.add_noise
    /\ \E i \in Envs, j \in Dofs :
           /\ base_lin_vel[i][1] * cfg.obs_scales.lin_vel < -cfg.clip_observations
           /\ privileged_obs_buf[i].lin_vel[1] = -cfg.clip_observations
           /\ actions[i][j] > cfg.clip_observations
           /\ obs_buf[i].actions[j] = cfg.clip_observations
           /\ obs_buf[i].dof_pos[j] = cfg.clip_observations
           /\ \E k \in Envs : obs_buf[k].dof_pos[j] # privileged_obs_buf[k].dof_pos[j]

\* ------------------------------------------------------ the command curriculum
\* flat ground, one control sub-step per step, the command curriculum on with cap
\* 1.0 m/s; initial linear-x ranges inside the cap, near it, beyond it, and wholly
\* below zero
CommandCfg ==
    [BaseCfg EXCEPT !.mesh_type = "plane", !.decimation = 1, !.sim_dt = 10,
                    !.scales = [tracking_lin_vel |-> 1, termination |-> -50,
                                action_rate |-> 0],
                    !.commands_curriculum = TRUE,
                    !.ranges.lin_vel_x = << -5, 5 >>]

CommandScn ==
    [BaseScn EXCEPT !.action = {0}, !.root_off = {<< 0, 0 >>}, !.cmd_x = {0, 5}]

CommandCases ==
    { [cfg |-> CommandCfg, scn |-> CommandScn],
      [cfg |-> [CommandCfg EXCEPT !.ranges.lin_vel_x = << -8, 8 >>], scn |-> CommandScn],
      [cfg |-> [CommandCfg EXCEPT !.ranges.lin_vel_x = << -10, 20 >>], scn |-> CommandScn],
      [cfg |-> [CommandCfg EXCEPT !.ranges.lin_vel_x = << -10, -7 >>],
       scn |-> [CommandScn EXCEPT !.cmd_x = {-8, 0}]] }

InitCommand == \E k \in CommandCases : InitWith(k.cfg, k.scn)

SpecCommand == InitCommand /\ [][Next]_vars

\* the bounds of the linear-x command range
lin_vel_x_lo == command_ranges.lin_vel_x[1]

lin_vel_x_hi == command_ranges.lin_vel_x[2]

\* the range lies within the cap of the curriculum
within_cap ==
    /\ -cfg.max_curriculum <= lin_vel_x_lo /\ lin_vel_x_lo <= cfg.max_curriculum
    /\ -cfg.max_curriculum <= lin_vel_x_hi /\ lin_vel_x_hi <= cfg.max_curriculum

\* the step leaves the range alone or widens it: a bound that moves moves outwards, by
\* 0.5 m/s or as far as the cap
widened_or_unchanged ==
    /\ lin_vel_x_lo' <= lin_vel_x_lo
    /\ lin_vel_x_hi' >= lin_vel_x_hi
    /\ lin_vel_x_lo' \in {lin_vel_x_lo, lin_vel_x_lo - 5, -cfg.max_curriculum}
    /\ lin_vel_x_hi' \in {lin_vel_x_hi, lin_vel_x_hi + 5, cfg.max_curriculum}

\* C20 as stated: for every initial configured range, every update of the command
\* curriculum leaves the linear-x range unchanged or widens it by the increment, and
\* after an update the range lies within [-max_curriculum, +max_curriculum].
C20_RangeOnlyWidens ==
    [][/\ widened_or_unchanged
       /\ command_ranges' # command_ranges => within_cap']_vars

\* C20: every update of the command curriculum leaves the command ranges unchanged or
\* sets the lower linear-x bound to clip(lo - 0.5, -max_curriculum, 0) and the upper to
\* clip(hi + 0.5, 0, max_curriculum), so that after an update the range lies within
\* [-max_curriculum, +max_curriculum]; when the initial range has its lower bound in
\* [-max_curriculum, 0] and its upper bound in [0, max_curriculum], the update never
\* narrows the range and moves each bound by 0.5 or up to the cap.
C20_RangeClippedToCurriculum ==
    [][/\ \/ command_ranges' = command_ranges
          \/ /\ ret'.op = "reset_idx" /\ ret'.env_ids # {}
             /\ lin_vel_x_lo' = Max2(-cfg.max_curriculum, Min2(0, lin_vel_x_lo - 5))
             /\ lin_vel_x_hi' = Max2(0, Min2(cfg.max_curriculum, lin_vel_x_hi + 5))
             /\ command_ranges' = [command_ranges EXCEPT
                                      !.lin_vel_x = << lin_vel_x_lo', lin_vel_x_hi' >>]
             /\ within_cap'
       /\ ( /\ -cfg.max_curriculum <= cfg.ranges.lin_vel_x[1]
            /\ cfg.ranges.lin_vel_x[1] <= 0
            /\ 0 <= cfg.ranges.lin_vel_x[2]
            /\ cfg.ranges.lin_vel_x[2] <= cfg.max_curriculum )
          => widened_or_unchanged]_vars

\* reset_idx has returned with the range widened from the configured [-0.5, 0.5] m/s
\* to the cap
C20_Witness ==
    /\ ret.op = "reset_idx"
    /\ ret.env_ids # {}
    /\ cfg.ranges.lin_vel_x = << -5, 5 >>
    /\ command_ranges.lin_vel_x = << -cfg.max_curriculum, cfg.max_curriculum >>

\* the configured control type is none of the three the controller implements
unrecognised_control_type == cfg.control_type \notin {"P", "V", "T"}

\* C21: with a control type other than "P", "V" and "T", step() fails in its first
\* torque computation: the failing computation writes nothing, no torque is ever written
\* and physics never advances, and nothing runs after the failure (no retry, no
\* fallback).
C21_UnknownControlTypeIsFatal ==
    /\ [](unrecognised_control_type =>
             /\ pc \in {"idle", "reset_call", "torque", "crashed"}
             /\ substep = 0
             /\ common_step_counter = 0
             /\ \A i \in Envs, j \in Dofs :
                    torques[i][j] = 0 /\ dof_pos[i][j] = 0 /\ dof_vel[i][j] = 0)
    /\ [][(pc = "torque" /\ unrecognised_control_type) =>
             pc' = "crashed" /\ Self' = Self]_vars
    /\ [][pc # "crashed"]_vars

\* step() has failed with an unknown control type after storing a non-zero action
C21_Witness ==
    /\ pc = "crashed"
    /\ cfg.control_type = "X"
    /\ \E i \in Envs, j \in Dofs : actions[i][j] # 0

\* ------------------------------------------------------------ both curricula
\* rough terrain with its curriculum, every robot starting on level 0, and the command
\* curriculum with a cap above the configured range
CurriculaCfg ==
    [BaseCfg EXCEPT !.max_init_terrain_level = 0,
                    !.scales = [tracking_lin_vel |-> 1, termination |-> -50,
                                action_rate |-> 0],
                    !.commands_curriculum = TRUE,
                    !.max_curriculum = 60]

CurriculaScn ==
    [BaseScn EXCEPT !.action = {0}]

InitCurricula == InitWith(CurriculaCfg, CurriculaScn)

SpecCurricula == InitCurricula /\ [][Next]_vars

\* the level the terrain curriculum gives environment i before the wrap, from the root
\* position, the origin and the command of the state the reset starts from
level_from_pre_reset_state(i) ==
    LET d2 == Norm2(<< root_xy[i][1] - env_origins[i][1],
                       root_xy[i][2] - env_origins[i][2] >>)
        c2 == Norm2(<< commands[i][1], commands[i][2] >>)
        up == 4 * d2 > cfg.env_length * cfg.env_length
        down == ~up /\ 40000 * d2 < c2 * max_episode_length_s * max_episode_length_s
    IN  terrain_levels[i] + (IF up THEN 1 ELSE 0) - (IF down THEN 1 ELSE 0)

\* the test of the command curriculum on the sums of the state the reset starts from
sums_above_threshold(ids) ==
    10 * SumOver([i \in ids |-> episode_sums["tracking_lin_vel"][i]], ids)
      > 8 * ExpKernel(0) * cfg.scales["tracking_lin_vel"] * dt
          * Cardinality(ids) * max_episode_length

\* C22: inside reset_idx the curricula read the state as it is before the reset: the
\* new terrain level of a reset environment follows from its root position, origin and
\* command before the reset re-places the robot, moves the origin and resamples the
\* command, and the command range widens exactly when the episode sums, before they are
\* zeroed, pass the threshold.
C22_CurriculaReadPreResetState ==
    [][(ret'.op = "reset_idx" /\ ret'.env_ids # {}) =>
          /\ terrain_curriculum =>
                \A i \in ret'.env_ids :
                    IF level_from_pre_reset_state(i) >= max_terrain_level
                    THEN terrain_levels'[i] \in 0 .. (max_terrain_level - 1)
                    ELSE terrain_levels'[i] = Max2(level_from_pre_reset_state(i), 0)
          /\ cfg.commands_curriculum =>
                IF sums_above_threshold(ret'.env_ids)
                     /\ common_step_counter % max_episode_length = 0
                THEN command_ranges'.lin_vel_x =
                         << Max2(-cfg.max_curriculum,
                                 Min2(0, command_ranges.lin_vel_x[1] - 5)),
                            Max2(0, Min2(cfg.max_curriculum,
                                         command_ranges.lin_vel_x[2] + 5)) >>
                ELSE command_ranges' = command_ranges]_vars

\* inside a step reset_idx has returned: the command range is wider than configured
\* while the sums it was judged on are zeroed, and a reset robot stands re-placed on the
\* origin of level 1, where only a walk away from the origin of level 0 takes it
C22_Witness ==
    /\ ret.op = "reset_idx"
    /\ pc = "obs"
    /\ command_ranges.lin_vel_x # cfg.ranges.lin_vel_x
    /\ \E i \in ret.env_ids :
           /\ episode_sums["tracking_lin_vel"][i] = 0
           /\ terrain_levels[i] = 1
           /\ root_xy[i] = << env_origins[i][1], env_origins[i][2] >>

\* C23: no environment runs longer than max_episode_length + 1 steps without a reset:
\* the episode counter counts the steps since the last reset (one more per step, zeroed
\* by every reset), a step times an environment out exactly when its incremented counter
\* exceeds max_episode_length, every timed-out environment is reset within that step,
\* and so the counter is never above max_episode_length when a step returns.
C23_ResetWithinEpisodeLength ==
    /\ [](ret.op = "step" => \A i \in Envs : episode_length_buf[i] <= max_episode_length)
    /\ [][pc = "post" =>
             \A i \in Envs :
                 /\ episode_length_buf'[i] = episode_length_buf[i] + 1
                 /\ time_out_buf'[i] = 1 <=> episode_length_buf[i] + 1 > max_episode_length
                 /\ time_out_buf'[i] = 1 => i \in env_ids']_vars
    /\ [][pc = "reset" => \A i \in env_ids : episode_length_buf'[i] = 0]_vars
    /\ [][pc # "post" =>
             \A i \in Envs : episode_length_buf'[i] \in {episode_length_buf[i], 0}]_vars

\* step max_episode_length + 1 after construction returns: an environment that never
\* had a contact termination has been reset by the time-out
C23_Witness ==
    /\ ret.op = "step"
    /\ common_step_counter = max_episode_length + 1
    /\ \E i \in ret.env_ids :
           /\ time_out_buf[i] = 1
           /\ contact_forces[i] <= ContactThreshold
           /\ episode_length_buf[i] = 0

\* C24: at the return of every step(), for every environment, those reset in the step
\* included, the shadow buffers equal the current values: last_actions = actions,
\* last_dof_pos = dof_pos, last_dof_vel = dof_vel, last_torques = torques; the zeros
\* reset_idx wrote to last_* inside the step are gone.
C24_ShadowBuffersCurrent ==
    ret.op = "step" =>
        \A i \in Envs :
            /\ last_actions[i] = actions[i]
            /\ last_dof_pos[i] = dof_pos[i]
            /\ last_dof_vel[i] = dof_vel[i]
            /\ last_torques[i] = torques[i]

\* a step returns having reset an environment whose stored action and torque are not
\* zero: its shadow buffers hold them, not the zeros of the reset
C24_Witness ==
    /\ ret.op = "step"
    /\ \E i \in ret.env_ids, j \in Dofs :
           /\ actions[i][j] # 0 /\ last_actions[i][j] = actions[i][j]
           /\ torques[i][j] # 0 /\ last_torques[i][j] = torques[i][j]

\* C25: reset_idx leaves the stored actions alone, so the first step of a new episode
\* filters its action with the last stored action of the episode before: the stored
\* action becomes clip((1 - delay) * new action + delay * that action), and in the
\* zero-action step of reset() it becomes clip(delay * that action).
C25_FilterStateSurvivesReset ==
    /\ [][ret'.op = "reset_idx" => actions' = actions]_vars
    /\ [][(pc = "idle" /\ pc' = "torque") =>
             \A i \in {e \in Envs : episode_length_buf[e] = 0}, j \in Dofs :
                 actions'[i][j] =
                     Max2(-action_bound, Min2(action_bound,
                         ((4 - delay_of(i)) * step_actions'[i][j]
                            + delay_of(i) * actions[i][j]) \div 4))]_vars
    /\ [][pc = "reset_call" =>
             \A i \in Envs, j \in Dofs :
                 /\ step_actions'[i][j] = 0
                 /\ actions'[i][j] =
                        Max2(-action_bound, Min2(action_bound,
                            (delay_of(i) * actions[i][j]) \div 4))]_vars

\* the zero-action step of reset() is under way after an episode of non-zero actions:
\* the stored action of a freshly reset environment is not zero
C25_Witness ==
    /\ pc = "torque"
    /\ cfg.action_delay
    /\ \E i \in Envs, j \in Dofs :
           /\ step_actions[i][j] = 0
           /\ episode_length_buf[i] = 0
           /\ last_actions[i][j] = 0
           /\ actions[i][j] # 0

\* ---------------------------------------------------------- the time-out flags
\* flat ground, no contact terminations, one step more than an episode and its
\* time-out take
TimeoutCfg ==
    [BaseCfg EXCEPT !.mesh_type = "plane",
                    !.scales = [termination |-> -50, action_rate |-> 0]]

TimeoutScn ==
    [BaseScn EXCEPT !.action = {0}, !.root_off = {<< 0, 0 >>}, !.contact = {0},
                    !.cmd_x = {50}, !.steps = MaxSteps + 1]

InitTimeout == InitWith(TimeoutCfg, TimeoutScn)

SpecTimeout == InitTimeout /\ [][Next]_vars

\* C26 as stated: in the info dictionary every step returns, with send_timeouts
\* enabled, time_outs[i] = 1 implies the done flag reset_buf[i] = 1 of that step, also
\* on steps that reset no environment.
C26_TimeOutsImplyDone ==
    (ret.op = "step" /\ cfg.send_timeouts) =>
        \A i \in DOMAIN extras.time_outs :
            extras.time_outs[i] = 1 => reset_buf[i] = 1

\* ------------------------------------------------- what a step returns for a reset row
\* joint velocities and a body-frame velocity that the reset does not reproduce, contacts
\* that end episodes, and a reward that depends on the joint velocities
TerminalCfg ==
    [RewardCfg EXCEPT !.only_positive_rewards = FALSE]

TerminalScn ==
    [BaseScn EXCEPT !.action = {0}, !.dof_vel = {0, 1}, !.root_off = {<< 0, 0 >>},
                    !.lin_vel = {<< 1, 0 >>}, !.cmd_x = {50}, !.obs_noise = {0}]

InitTerminal == InitWith(TerminalCfg, TerminalScn)

SpecTerminal == InitTerminal /\ [][Next]_vars

\* the scaled and clipped body-frame velocity block of environment i
lin_vel_block(i) ==
    << clip_obs(base_lin_vel[i][1] * cfg.obs_scales.lin_vel),
       clip_obs(base_lin_vel[i][2] * cfg.obs_scales.lin_vel) >>

\* the scaled and clipped joint blocks of environment i
joint_blocks(i) ==
    [ dof_pos |-> [j \in Dofs |->
                     clip_obs((dof_pos[i][j] - default_dof_pos[j]) * cfg.obs_scales.dof_pos)],
      dof_vel |-> [j \in Dofs |-> clip_obs(dof_vel[i][j] * cfg.obs_scales.dof_vel)] ]

\* C27: for an environment reset during a step, the reward and the terminal AMP state
\* are those of the state before the reset (both are set when the reset is about to run
\* and the reset and the observation leave them alone), the reset does not touch the
\* body-frame velocity derived after physics, and the observation computed after the
\* reset shows the joint positions and velocities the reset placed next to the
\* body-frame velocity derived before it.
C27_ObservationMixesResetAndDerived ==
    /\ [](pc = "reset" =>
             /\ DOMAIN terminal_amp_states = env_ids
             /\ \A i \in env_ids :
                    /\ rew_buf[i] = total_reward(Self, i)
                    /\ terminal_amp_states[i].dof_pos = dof_pos[i]
                    /\ terminal_amp_states[i].dof_vel = dof_vel[i])
    /\ [][(pc = "reset" \/ pc = "obs") =>
             (rew_buf' = rew_buf /\ terminal_amp_states' = terminal_amp_states
                 /\ base_lin_vel' = base_lin_vel)]_vars
    /\ [][pc = "obs" => dof_pos' = dof_pos /\ dof_vel' = dof_vel]_vars
    /\ [](ret.op = "step" =>
             \A i \in ret.env_ids :
                 /\ privileged_obs_buf[i].lin_vel = lin_vel_block(i)
                 /\ privileged_obs_buf[i].dof_pos = joint_blocks(i).dof_pos
                 /\ privileged_obs_buf[i].dof_vel = joint_blocks(i).dof_vel
                 /\ obs_buf[i].dof_pos = joint_blocks(i).dof_pos
                 /\ obs_buf[i].dof_vel = joint_blocks(i).dof_vel)

\* a step returns having reset an environment: its terminal AMP state holds a joint
\* velocity the reset replaced, its reward is not the reward of the state returned, its
\* observation shows the joint velocity the reset placed and the body-frame velocity
\* derived before the reset
C27_Witness ==
    /\ ret.op = "step"
    /\ \E i \in ret.env_ids :
           /\ \E j \in Dofs : terminal_amp_states[i].dof_vel[j] # dof_vel[i][j]
           /\ rew_buf[i] # total_reward(Self, i)
           /\ \A j \in Dofs : privileged_obs_buf[i].dof_vel[j] = 0
           /\ privileged_obs_buf[i].lin_vel = << 2, 0 >>
           /\ base_lin_vel[i] = << 1, 0 >>

\* post_physics_step, the time the reference motion is queried at for environment i:
\* episode_length_buf / max_episode_length * max_episode_length_s is at most
\* max_episode_length_s (compared after multiplying both sides by max_episode_length)
query_time_within_trajectory(i) ==
    /\ 0 <= episode_length_buf[i] * max_episode_length_s
    /\ episode_length_buf[i] * max_episode_length_s
           <= max_episode_length_s * max_episode_length

\* C28: at the return of every step, and when post_physics_step queries the reference
\* motion (before it counts the step), every episode_length_buf[i] lies in
\* 0 .. max_episode_length, so the query time is within the trajectory; the counter
\* goes up by exactly 1 per step, and any other change of it is a reset_idx writing 0.
C28_EpisodeLengthWithinTrajectory ==
    /\ []((ret.op = "step" \/ pc = "post") =>
             \A i \in Envs :
                 /\ 0 <= episode_length_buf[i]
                 /\ episode_length_buf[i] <= max_episode_length
                 /\ query_time_within_trajectory(i))
    /\ [][pc = "post" =>
             \A i \in Envs : episode_length_buf'[i] = episode_length_buf[i] + 1]_vars
    /\ [][\A i \in Envs :
             (pc # "post" /\ episode_length_buf'[i] # episode_length_buf[i]) =>
                 (ret'.op = "reset_idx" /\ i \in ret'.env_ids
                     /\ episode_length_buf'[i] = 0)]_vars

\* the reference motion is queried at the end of the trajectory for one environment
\* and at its start for another, after at least one step
C28_Witness ==
    /\ pc = "post"
    /\ common_step_counter > 0
    /\ \E i \in Envs, j \in Envs :
           /\ episode_length_buf[i] = max_episode_length
           /\ episode_length_buf[j] = 0

\* the sum over all terms of episode_sums of environment i
sums_total(i) ==
    SumOver([k \in DOMAIN reward_scales |-> episode_sums[k][i]], DOMAIN reward_scales)

\* the total of the step just evaluated for environment i, before the clamp, with the
\* termination contribution
unclamped_total(i) == loop_total(Self, i) + termination_term(Self, i)

\* C29: on every step the sums of an environment grow, over all terms together, by the
\* total before the clamp plus the termination contribution; rew_buf is the clamped
\* total plus the termination contribution whatever it held before; so under
\* only_positive_rewards with a negative total before the clamp the growth of the sums
\* is below rew_buf, which is then the termination contribution alone.
C29_SumsAccumulateUnclamped ==
    [][pc = "post" =>
          \A i \in Envs :
              /\ sums_total(i)' - sums_total(i) = unclamped_total(i)'
              /\ rew_buf'[i] = clamp_reward(loop_total(Self, i)') + termination_term(Self, i)'
              /\ (cfg.only_positive_rewards /\ loop_total(Self, i)' < 0) =>
                     /\ rew_buf'[i] = termination_term(Self, i)'
                     /\ sums_total(i)' - sums_total(i) < rew_buf'[i]]_vars

\* on the first step of an episode, under only_positive_rewards, the total before the
\* clamp is negative: the sums hold it and rew_buf holds more; another environment has
\* a positive total and a positive reward
C29_Witness ==
    /\ pc = "reset"
    /\ cfg.only_positive_rewards
    /\ \E i \in Envs :
           /\ episode_length_buf[i] = 1
           /\ loop_total(Self, i) < 0
           /\ sums_total(i) = unclamped_total(i)
           /\ sums_total(i) < rew_buf[i]
    /\ \E j \in Envs : loop_total(Self, j) > 0 /\ rew_buf[j] > 0

\* ------------------------------------------------------- origins on a terrain
\* a terrain of two rows and two columns, with the curriculum and without it
TerrainCfg ==
    [BaseCfg EXCEPT !.num_cols = 2, !.max_init_terrain_level = 0,
                    !.scales = [termination |-> -50, action_rate |-> 0]]

TerrainScn ==
    [BaseScn EXCEPT !.action = {0}]

TerrainCases ==
    { [cfg |-> TerrainCfg, scn |-> TerrainScn],
      [cfg |-> [TerrainCfg EXCEPT !.terrain_curriculum = FALSE], scn |-> TerrainScn] }

InitTerrain == \E k \in TerrainCases : InitWith(k.cfg, k.scn)

SpecTerrain == InitTerrain /\ [][Next]_vars

\* the buffers as they stand, seen by a call made before __init__ has set init_done
before_init_done == [Self EXCEPT !.init_done = FALSE]

\* C30: with origins defined by the terrain, in every state the origin of every
\* environment is the terrain origin of its level and type; the types never change;
\* and the terrain curriculum called while init_done is false returns the buffers as
\* they are, whatever the index set.
C30_OriginsFollowLevels ==
    /\ [](custom_origins =>
             \A i \in Envs :
                 env_origins[i] = terrain_origins(terrain_levels[i], terrain_types[i]))
    /\ [][terrain_types' = terrain_types]_vars
    /\ [](\A ids \in SUBSET Envs :
             update_terrain_curriculum(before_init_done, ids) = {before_init_done})

\* under the curriculum a reset_idx has moved one environment to a level no environment
\* starts on and placed it on the origin of that level; another environment is on
\* another level, type and origin
C30_Witness ==
    /\ terrain_curriculum
    /\ ret.op = "reset_idx"
    /\ \E i \in ret.env_ids, j \in Envs :
           /\ terrain_levels[i] > cfg.max_init_terrain_level
           /\ terrain_levels[i] # terrain_levels[j]
           /\ terrain_types[i] # terrain_types[j]
           /\ env_origins[i] = terrain_origins(terrain_levels[i], terrain_types[i])
           /\ env_origins[i][1] # env_origins[j][1]
           /\ env_origins[i][2] # env_origins[j][2]
           /\ root_xy[i] = env_origins[i]

====
